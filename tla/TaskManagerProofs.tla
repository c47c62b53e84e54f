------------------------- MODULE TaskManagerProofs --------------------------
(***************************************************************************)
(* Proofs about TaskManager, for every set of tasks and mutexes, every      *)
(* priority, and tasks that change their mutex lists at any point, any       *)
(* number of times: type correctness, then the inductive invariant and what  *)
(* follows from it.                                                          *)
(*                                                                           *)
(* One lemma for each part of Inductive, with one step for each action that  *)
(* touches it.  The parts rest on each other: a part is shown to hold after  *)
(* a step from all of them before it.                                        *)
(***************************************************************************)
EXTENDS TaskManager, IndexedSetProofs, FiniteSetTheorems

-----------------------------------------------------------------------------
(* Type correctness.                                                         *)

LEMMA DeactivateType ==
    ASSUME TypeOK, NEW t \in Task, NEW st, Deactivate(t, st)
    PROVE  /\ IsSet(active', Task) /\ IsSet(inactive', Task) /\ IsSet(gray', Task)
           /\ tasksByName' \in [Names -> Int]
<1>1. IsSet(active', Task) /\ IsSet(gray', Task)
  BY RemoveIsSet DEF Deactivate, TypeOK
<1>2. CASE st \in Finished
  <2>1. tasksByName' = [tasksByName EXCEPT ![Name[t]] =
                          IF @ > LowestCount THEN @ - 1 ELSE @]
    BY <1>2 DEF Deactivate
  <2>2. tasksByName' \in [Names -> Int]
    <3>1. tasksByName \in [Names -> Int] /\ Name[t] \in Names
      BY DEF TypeOK, Names
    <3>2. tasksByName[Name[t]] - 1 \in Int /\ tasksByName[Name[t]] \in Int
      BY <3>1
    <3> QED
      BY <2>1, <3>1, <3>2
  <2> QED
    BY <1>1, <1>2, <2>2 DEF Deactivate, TypeOK
<1>3. CASE st \notin Finished
  BY <1>1, <1>3, AddIsSet DEF Deactivate, TypeOK
<1> QED
  BY <1>2, <1>3

LEMMA LocksType ==
    ASSUME TypeOK, NEW t \in Task, NEW ms
    PROVE  /\ Granted(t, ms) \in [Mutex -> Task \cup {NoTask}]
           /\ Released(t, ms) \in [Mutex -> Task \cup {NoTask}]
BY DEF TypeOK, Granted, Released

LEMMA OnMutexesChangedType ==
    ASSUME TypeOK, NEW t \in Task, OnMutexesChanged(t)
    PROVE  /\ IsSet(gray', Task) /\ activeMutexes' \in [Mutex -> Task \cup {NoTask}]
           /\ shouldReschedule' \in BOOLEAN
BY AddIsSet, LocksType DEF OnMutexesChanged, TypeOK

LEMMA ChangeListType ==
    ASSUME TypeOK, NEW t \in Task, NEW ms, ChangeList(t, ms)
    PROVE  mutexes' \in [Task -> SUBSET Mutex] /\ changes' \in Nat
<1>1. ms \in SUBSET Mutex
  BY TaskAssumption DEF ChangeList
<1> QED
  BY <1>1 DEF ChangeList, TypeOK

LEMMA FinishType ==
    ASSUME TypeOK, NEW t \in Task, NEW st \in Status, NEW ms, Finish(t, st, ms)
    PROVE  /\ status' \in [Task -> Status]
           /\ IsSet(active', Task) /\ IsSet(inactive', Task) /\ IsSet(gray', Task)
           /\ tasksByName' \in [Names -> Int]
           /\ activeMutexes' \in [Mutex -> Task \cup {NoTask}]
           /\ shouldReschedule' \in BOOLEAN
           /\ UNCHANGED <<pc, i, locals>>
<1>1. Deactivate(t, st) /\ activeMutexes' = Released(t, ms)
  BY DEF Finish
<1>2. status' \in [Task -> Status] /\ shouldReschedule' \in BOOLEAN
  BY DEF Finish, TypeOK
<1> QED
  BY <1>1, <1>2, DeactivateType, LocksType DEF Finish

LEMMA InitType == Init => TypeOK
<1> SUFFICES ASSUME Init PROVE TypeOK
  OBVIOUS
<1>1. /\ IsSet(active, Task) /\ IsSet(inactive, Task) /\ IsSet(gray, Task)
      /\ IsSet(oldActive, Task) /\ IsSet(oldInactive, Task)
  BY EmptyIsSet DEF Init
<1>2. shouldReschedule \in BOOLEAN
  BY DEF Init
<1> QED
  BY <1>1, <1>2 DEF Init, TypeOK, Status

\* Type correctness is inductive by itself.
LEMMA NextType == TypeOK /\ [Next]_vars => TypeOK'
<1> SUFFICES ASSUME TypeOK, [Next]_vars PROVE TypeOK'
  OBVIOUS
<1> USE DEF vars, objects, books, locals
<1>1. ASSUME NEW t \in Task, Add(t) PROVE TypeOK'
  <2>1. PICK ms \in MutexLists[t] : mutexes' = [mutexes EXCEPT ![t] = ms]
    BY <1>1 DEF Add
  <2>2. ms \in SUBSET Mutex
    BY TaskAssumption
  <2>3. mutexes' \in [Task -> SUBSET Mutex]
    BY <2>1, <2>2 DEF TypeOK
  <2>4. tasksByName' = [tasksByName EXCEPT ![Name[t]] = @ + 1]
    BY <1>1 DEF Add
  <2>5. tasksByName' \in [Names -> Int]
    <3>1. tasksByName \in [Names -> Int] /\ Name[t] \in Names
      BY DEF TypeOK, Names
    <3>2. tasksByName[Name[t]] + 1 \in Int
      BY <3>1
    <3> QED
      BY <2>4, <3>1, <3>2
  <2>6. shouldReschedule' \in BOOLEAN
    BY <1>1 DEF Add
  <2> QED
    BY <1>1, <2>3, <2>5, <2>6, AddIsSet DEF Add, TypeOK
<1>2. ASSUME NEW t \in Task, Stop(t) PROVE TypeOK'
  BY <1>2 DEF Stop, OnStop, TypeOK, Status
<1>3. ASSUME NEW S \in SUBSET Managed, StopAll(S) PROVE TypeOK'
  BY <1>3 DEF StopAll, TypeOK, Status
<1>4. CASE Begin
  BY <1>4 DEF Begin, TypeOK, Loop
<1>5. CASE GrayStep
  <2> DEFINE t == gray.items[1]
  <2>1. t \in Task
    BY <1>5 DEF GrayStep, TypeOK, IsSet
  <2>2. CASE Deactivate(t, status[t]) /\ activeMutexes' = Released(t, mutexes[t])
    <3> HIDE DEF t
    <3> QED
      BY <1>5, <2>1, <2>2, DeactivateType, LocksType DEF GrayStep, TypeOK
  <2>3. CASE /\ activeMutexes' = Granted(t, mutexes[t])
             /\ gray' = ShiftArray(gray)
             /\ UNCHANGED <<active, inactive, tasksByName>>
    <3>1. IsSet(gray', Task)
      BY <1>5, <2>3, ShiftIsSet DEF GrayStep, TypeOK
    <3> HIDE DEF t
    <3> QED
      BY <1>5, <2>1, <2>3, <3>1, LocksType DEF GrayStep, TypeOK
  <2> QED
    BY <1>5, <2>2, <2>3 DEF GrayStep
<1>6. CASE GrayDone
  BY <1>6 DEF GrayDone, TypeOK, Loop
<1>7. ASSUME NEW t \in Task, ThrowAway(t) PROVE TypeOK'
  BY <1>7, RemoveIsSet DEF ThrowAway, TypeOK
<1>8. ASSUME NEW t \in Task, ChooseFree(t) PROVE TypeOK'
  BY <1>8, AddIsSet, RemoveIsSet, LocksType DEF ChooseFree, Chosen, TypeOK
<1>9. ASSUME NEW t \in Task, ChooseSteal(t) PROVE TypeOK'
  BY <1>9, AddIsSet, RemoveIsSet DEF ChooseSteal, Chosen, TypeOK, Loop
<1>10. ASSUME NEW t \in Task, Pass(t) PROVE TypeOK'
  BY <1>10 DEF Pass, TypeOK
<1>11. ASSUME NEW m \in Mutex, Steal(m) PROVE TypeOK'
  <2> DEFINE owner == activeMutexes[m]
  <2>1. pending' \in SUBSET Mutex /\ pc' \in Loop \cup {"idle"}
        /\ thief' \in Task \cup {NoTask}
    BY <1>11 DEF Steal, TypeOK, Loop
  <2>2. thief \in Task \cup {NoTask} /\ owner \in Task \cup {NoTask}
    BY DEF TypeOK
  <2>3. CASE owner = NoTask
    <3>1. Granted(thief, {m}) \in [Mutex -> Task \cup {NoTask}]
      BY <2>2 DEF Granted, TypeOK
    <3> QED
      BY <1>11, <2>1, <2>3, <3>1 DEF Steal, TypeOK
  <2>4. CASE owner # NoTask
    <3>1. owner \in Task /\ Deactivate(owner, status[owner])
      BY <1>11, <2>2, <2>4 DEF Steal
    <3>2. [Released(owner, mutexes[owner]) EXCEPT ![m] = thief]
             \in [Mutex -> Task \cup {NoTask}]
      BY <2>2, <3>1, LocksType
    <3>3. activeMutexes' = [Released(owner, mutexes[owner]) EXCEPT ![m] = thief]
      BY <1>11, <2>4 DEF Steal
    <3> QED
      BY <1>11, <2>1, <3>1, <3>2, <3>3, DeactivateType DEF Steal, TypeOK
  <2> QED
    BY <2>3, <2>4
<1>12. CASE ActivateDone
  BY <1>12 DEF ActivateDone, TypeOK, Loop
<1>13. ASSUME NEW t \in Task, Resume(t) PROVE TypeOK'
  <2>1. status' \in [Task -> Status]
    BY <1>13 DEF Resume, TypeOK, Status
  <2>2. i' \in Nat \ {0}
    BY <1>13 DEF Resume, TypeOK
  <2>3. CASE UNCHANGED <<mutexes, gray, activeMutexes, shouldReschedule, changes>>
    BY <1>13, <2>1, <2>2, <2>3 DEF Resume, TypeOK
  <2>4. CASE /\ \E ms \in MutexLists[t] : ChangeList(t, ms)
             /\ OnMutexesChanged(t)
    <3>1. mutexes' \in [Task -> SUBSET Mutex] /\ changes' \in Nat
      BY <2>4, ChangeListType
    <3> QED
      BY <1>13, <2>1, <2>2, <2>4, <3>1, OnMutexesChangedType DEF Resume, TypeOK
  <2> QED
    BY <1>13, <2>3, <2>4 DEF Resume
<1>14. ASSUME NEW t \in Task, ResumeOld(t) PROVE TypeOK'
  BY <1>14 DEF ResumeOld, TypeOK
<1>15. ASSUME NEW t \in Task, Interrupt(t) PROVE TypeOK'
  BY <1>15 DEF Interrupt, TypeOK, Status
<1>16. CASE ResumeDone
  BY <1>16 DEF ResumeDone, TypeOK, Loop
<1>17. CASE Rescheduled
  <2>1. shouldReschedule' \in BOOLEAN
    BY <1>17 DEF Rescheduled
  <2>2. IsSet(oldActive', Task) /\ IsSet(oldInactive', Task)
    BY <1>17, EmptyIsSet DEF Rescheduled
  <2> QED
    BY <1>17, <2>1, <2>2 DEF Rescheduled, TypeOK, Loop
<1>18. ASSUME NEW t \in Task, RunOn(t) PROVE TypeOK'
  <2>1. i' \in Nat \ {0} /\ ran' \in SUBSET Task
    BY <1>18 DEF RunOn, TypeOK
  <2>2. CASE UNCHANGED <<mutexes, gray, activeMutexes, shouldReschedule, changes>>
    BY <1>18, <2>1, <2>2 DEF RunOn, TypeOK
  <2>3. CASE /\ \E ms \in MutexLists[t] : ChangeList(t, ms)
             /\ OnMutexesChanged(t)
    <3>1. mutexes' \in [Task -> SUBSET Mutex] /\ changes' \in Nat
      BY <2>3, ChangeListType
    <3> QED
      BY <1>18, <2>1, <2>3, <3>1, OnMutexesChangedType DEF RunOn, TypeOK
  <2> QED
    BY <1>18, <2>2, <2>3 DEF RunOn
<1>19. ASSUME NEW t \in Task, RunLast(t) PROVE TypeOK'
  <2>1. PICK st \in Status : Finish(t, st, mutexes[t])
    BY <1>19 DEF RunLast, Finished, Status
  <2>2. ran' \in SUBSET Task /\ UNCHANGED <<mutexes, changes>>
    BY <1>19 DEF RunLast, TypeOK
  <2> QED
    BY <2>1, <2>2, FinishType DEF TypeOK
<1>20. ASSUME NEW t \in Task, RunLastRestoring(t) PROVE TypeOK'
  <2>1. PICK ms \in MutexLists[t] : ChangeList(t, ms) /\ Finish(t, "STOPPED", ms)
    BY <1>20 DEF RunLastRestoring
  <2>2. ran' \in SUBSET Task /\ "STOPPED" \in Status
    BY <1>20 DEF RunLastRestoring, TypeOK, Status
  <2>3. mutexes' \in [Task -> SUBSET Mutex] /\ changes' \in Nat
    BY <2>1, ChangeListType
  <2> QED
    BY <2>1, <2>2, <2>3, FinishType DEF TypeOK
<1>21. CASE IterateDone
  BY <1>21 DEF IterateDone, TypeOK
<1>22. CASE UNCHANGED vars
  BY <1>22 DEF TypeOK
<1> QED
  BY <1>1, <1>2, <1>3, <1>4, <1>5, <1>6, <1>7, <1>8, <1>9, <1>10, <1>11, <1>12,
     <1>13, <1>14, <1>15, <1>16, <1>17, <1>18, <1>19, <1>20, <1>21, <1>22
     DEF Next, Commands, Iterate, Reschedule, Run

\* The manager's tables only ever hold tasks, mutexes and counts.
THEOREM TypeCorrect == Spec => []TypeOK
BY InitType, NextType, PTL DEF Spec

-----------------------------------------------------------------------------
(* What the sets hold.                                                       *)

LEMMA ItemsType ==
    ASSUME NEW E, NEW S, IsSet(S, E)
    PROVE  /\ S.items \in Seq(E) /\ Len(S.items) \in Nat
           /\ Items(S) \subseteq E
           /\ \A n \in 1 .. Len(S.items) : S.items[n] \in Items(S)
BY DEF IsSet, Items

LEMMA FirstItem ==
    ASSUME NEW E, NEW S, IsSet(S, E), S.items # <<>>
    PROVE  Len(S.items) \in Nat \ {0} /\ S.items[1] \in Items(S)
<1>1. S.items \in Seq(E) /\ Len(S.items) \in Nat \ {0}
  BY DEF IsSet
<1>2. 1 \in 1 .. Len(S.items)
  BY <1>1
<1> QED
  BY <1>1, <1>2 DEF Items

LEMMA ConsistentDistinct ==
    ASSUME NEW E, NEW S, IsSet(S, E), Consistent(S),
           NEW n \in 1 .. Len(S.items), NEW p \in 1 .. Len(S.items), n # p
    PROVE  S.items[n] # S.items[p]
BY ItemsType, ConsistentIndexed, IndexedInjective

-----------------------------------------------------------------------------
(* The two sets.                                                             *)

\* What deactivateTask does to the two sets.
LEMMA DeactivateSets ==
    ASSUME TypeOK, Partition, NEW t \in Task, NEW st, Deactivate(t, st)
    PROVE  /\ Consistent(active') /\ Consistent(inactive')
           /\ Items(active') \cap Items(inactive') = {}
           /\ Items(active') = Items(active) \ {t}
           /\ st \in Finished => inactive' = inactive
           /\ st \notin Finished => Items(inactive') = Items(inactive) \cup {t}
<1>1. Consistent(active') /\ Items(active') = Items(active) \ {t}
  BY RemoveConsistent DEF Deactivate, TypeOK, Partition
<1>2. CASE st \in Finished
  BY <1>1, <1>2 DEF Deactivate, Partition
<1>3. CASE st \notin Finished
  <2>1. Consistent(inactive') /\ Items(inactive') = Items(inactive) \cup {t}
    BY <1>3, AddConsistent DEF Deactivate, TypeOK, Partition
  <2> QED
    BY <1>1, <1>3, <2>1 DEF Partition
<1> QED
  BY <1>2, <1>3

\* A candidate goes from the one set to the other.
LEMMA ChosenSets ==
    ASSUME TypeOK, Partition, NEW t \in Task, Considering(t), Chosen(t)
    PROVE  /\ Consistent(active') /\ Consistent(inactive')
           /\ Items(active') \cap Items(inactive') = {}
           /\ t \in Items(inactive) /\ t \notin Items(active)
           /\ Items(active') = Items(active) \cup {t}
           /\ Items(inactive') = Items(inactive) \ {t}
<1>1. Consistent(active') /\ Items(active') = Items(active) \cup {t}
  BY AddConsistent DEF Chosen, TypeOK, Partition
<1>2. Consistent(inactive') /\ Items(inactive') = Items(inactive) \ {t}
  BY RemoveConsistent DEF Chosen, TypeOK, Partition
<1>3. t \in Items(inactive)
  BY ItemsType DEF Considering, Candidate, TypeOK
<1> QED
  BY <1>1, <1>2, <1>3 DEF Partition

\* The steps that change one of the two sets.
LEMMA SetSteps ==
    ASSUME [Next]_vars
    PROVE  \/ UNCHANGED <<active, inactive>>
           \/ \E t \in Task : \/ Add(t) \/ ThrowAway(t) \/ ChooseFree(t)
                              \/ ChooseSteal(t) \/ RunLast(t) \/ RunLastRestoring(t)
           \/ GrayStep
           \/ \E m \in Mutex : Steal(m)
<1> USE DEF vars, objects, books, locals
<1>1. CASE Commands
  BY <1>1 DEF Commands, Stop, StopAll
<1>2. CASE Reschedule
  BY <1>2 DEF Reschedule, GrayDone, Pass, ActivateDone, Resume, ResumeOld, Interrupt,
     ResumeDone, Rescheduled
<1>3. CASE Run \/ Begin
  BY <1>3 DEF Run, Begin, RunOn, IterateDone
<1> QED
  BY <1>1, <1>2, <1>3 DEF Next, Iterate

LEMMA PartitionStep == TypeOK /\ Partition /\ [Next]_vars => Partition'
<1> SUFFICES ASSUME TypeOK, Partition, [Next]_vars PROVE Partition'
  OBVIOUS
<1>1. ASSUME NEW t \in Task, Add(t) PROVE Partition'
  BY <1>1, AddConsistent DEF Add, TypeOK, Partition, Managed
<1>2. ASSUME NEW t \in Task, ThrowAway(t) PROVE Partition'
  BY <1>2, RemoveConsistent DEF ThrowAway, TypeOK, Partition
<1>3. ASSUME NEW t \in Task, ChooseFree(t) \/ ChooseSteal(t) PROVE Partition'
  BY <1>3, ChosenSets DEF ChooseFree, ChooseSteal, Partition
<1>4. ASSUME NEW t \in Task, RunLast(t) \/ RunLastRestoring(t) PROVE Partition'
  <2>1. PICK st : Deactivate(t, st)
    BY <1>4 DEF RunLast, RunLastRestoring, Finish
  <2> QED
    BY <2>1, DeactivateSets DEF Partition
<1>5. CASE GrayStep
  <2> DEFINE t == gray.items[1]
  <2>1. t \in Task
    BY <1>5 DEF GrayStep, TypeOK, IsSet
  <2>2. CASE Deactivate(t, status[t])
    <3> HIDE DEF t
    <3> QED
      BY <2>1, <2>2, DeactivateSets DEF Partition
  <2>3. CASE UNCHANGED <<active, inactive>>
    BY <2>3 DEF Partition
  <2> QED
    BY <1>5, <2>2, <2>3 DEF GrayStep
<1>6. ASSUME NEW m \in Mutex, Steal(m) PROVE Partition'
  <2>1. CASE activeMutexes[m] = NoTask
    BY <1>6, <2>1 DEF Steal, Partition
  <2>2. CASE activeMutexes[m] # NoTask
    <3>1. activeMutexes[m] \in Task
      BY <2>2 DEF TypeOK
    <3>2. Deactivate(activeMutexes[m], status[activeMutexes[m]])
      BY <1>6, <2>2 DEF Steal
    <3> QED
      BY <3>1, <3>2, DeactivateSets DEF Partition
  <2> QED
    BY <2>1, <2>2
<1>7. CASE UNCHANGED <<active, inactive>>
  BY <1>7 DEF Partition
<1> QED
  BY SetSteps, <1>1, <1>2, <1>3, <1>4, <1>5, <1>6, <1>7

-----------------------------------------------------------------------------
(* Who owns what.                                                            *)

\* The thief stays active while it takes the mutexes of weaker tasks.
LEMMA StealStep ==
    TypeOK /\ Partition /\ StealInv /\ [Next]_vars => StealInv'
<1> SUFFICES ASSUME TypeOK, Partition, StealInv, [Next]_vars, pc' = "steal"
             PROVE  StealInv'
  BY DEF StealInv
<1> USE DEF vars, objects, books, locals
<1>1. ASSUME NEW t \in Task, ChooseSteal(t) PROVE StealInv'
  <2>1. /\ thief' = t /\ pending' = mutexes[t]
        /\ activeMutexes' = activeMutexes /\ mutexes' = mutexes
        /\ HigherPriority(t, Conflicts(t))
        /\ Considering(t) /\ Chosen(t)
    BY <1>1 DEF ChooseSteal
  <2>2. t \in Items(active')
    BY <2>1, ChosenSets
  <2>3. ASSUME NEW m \in mutexes[t], activeMutexes[m] # NoTask
        PROVE  activeMutexes[m] # t /\ Priority[t] > Priority[activeMutexes[m]]
    <3>1. m \in Conflicts(t)
      BY <2>3 DEF Conflicts
    <3>2. Priority[t] > Priority[activeMutexes[m]] /\ Priority[t] \in Int
      BY <3>1, <2>1, TaskAssumption DEF HigherPriority
    <3> QED
      BY <3>2
  <2> QED
    BY <2>1, <2>2, <2>3 DEF StealInv
<1>2. ASSUME NEW m \in Mutex, Steal(m) PROVE StealInv'
  <2>1. /\ pc = "steal" /\ thief' = thief /\ pending' = pending \ {m}
        /\ m \in pending /\ mutexes' = mutexes
    BY <1>2 DEF Steal
  <2>2. CASE activeMutexes[m] = NoTask
    <3>1. active' = active /\ activeMutexes' = Granted(thief, {m})
      BY <1>2, <2>2 DEF Steal
    <3> QED
      BY <2>1, <3>1 DEF StealInv, Granted, TypeOK
  <2>3. CASE activeMutexes[m] # NoTask
    <3> DEFINE owner == activeMutexes[m]
    <3>1. /\ owner \in Task /\ owner # thief /\ Deactivate(owner, status[owner])
          /\ activeMutexes' = [Released(owner, mutexes[owner]) EXCEPT ![m] = thief]
      BY <1>2, <2>1, <2>3 DEF Steal, StealInv, TypeOK
    <3>2. thief \in Items(active')
      BY <2>1, <3>1, DeactivateSets DEF StealInv
    <3>3. \A n \in pending \ {m} : activeMutexes'[n] \in {NoTask, activeMutexes[n]}
      BY <3>1 DEF Released, TypeOK
    <3>4. pending' \subseteq mutexes'[thief']
      BY <2>1 DEF StealInv
    <3>5. \A n \in pending' : \/ activeMutexes'[n] = NoTask
                             \/ /\ activeMutexes'[n] # thief'
                                /\ Priority[thief'] > Priority[activeMutexes'[n]]
      BY <2>1, <3>3 DEF StealInv
    <3> QED
      BY <2>1, <3>2, <3>4, <3>5 DEF StealInv
  <2> QED
    BY <2>2, <2>3
<1>3. CASE Commands
  BY <1>3 DEF Commands, Add, Stop, StopAll
<1>4. CASE Run \/ Begin
  BY <1>4 DEF Run, Begin, RunOn, RunLast, RunLastRestoring, Finish, IterateDone, Running
<1>5. CASE UNCHANGED vars
  BY <1>5 DEF StealInv
<1>6. CASE GrayStep \/ GrayDone \/ ActivateDone \/ ResumeDone \/ Rescheduled
  BY <1>6 DEF GrayStep, GrayDone, ActivateDone, ResumeDone, Rescheduled
<1>7. ASSUME NEW t \in Task, ThrowAway(t) \/ ChooseFree(t) \/ Pass(t) PROVE FALSE
  BY <1>7 DEF ThrowAway, ChooseFree, Pass, Considering
<1>8. ASSUME NEW t \in Task, Resume(t) \/ ResumeOld(t) \/ Interrupt(t) PROVE FALSE
  BY <1>8 DEF Resume, ResumeOld, Interrupt, Resuming, Interrupting
<1> QED
  BY <1>1, <1>2, <1>3, <1>4, <1>5, <1>6, <1>7, <1>8 DEF Next, Iterate, Reschedule

\* Letting go of a task leaves owners that are active, or gone.
LEMMA DeactivateOwners ==
    ASSUME TypeOK, Partition, OwnerInv, NEW t \in Task, NEW st, NEW ms,
           Deactivate(t, st), status'[t] = st,
           st \in Finished \/ (st = status[t] /\ mutexes[t] \subseteq ms),
           \A u \in Task \ {t} : status'[u] = status[u] /\ mutexes'[u] = mutexes[u]
    PROVE  \A m \in Mutex :
             LET u == Released(t, ms)[m]
             IN  \/ u = NoTask
                 \/ u \in Items(active') /\ m \in mutexes'[u]
                 \/ u \notin Managed' /\ status'[u] \in Finished
<1> SUFFICES ASSUME NEW m \in Mutex, Released(t, ms)[m] # NoTask
             PROVE  \/ /\ activeMutexes[m] \in Items(active')
                       /\ m \in mutexes'[activeMutexes[m]]
                    \/ /\ activeMutexes[m] \notin Managed'
                       /\ status'[activeMutexes[m]] \in Finished
  BY DEF Released
<1> DEFINE u == activeMutexes[m]
<1>1. u \in Task /\ ~(m \in ms /\ u = t)
  BY DEF Released, TypeOK
<1>2. \/ u \in Items(active) /\ m \in mutexes[u]
      \/ u \notin Managed /\ status[u] \in Finished
  BY <1>1, TaskAssumption DEF OwnerInv
<1> HIDE DEF u
<1>3. CASE u # t
  <2>1. status'[u] = status[u] /\ mutexes'[u] = mutexes[u]
    BY <1>1, <1>3
  <2> QED
    BY <1>2, <1>3, <2>1, DeactivateSets DEF Managed, u
<1>4. CASE u = t
  <2>1. st \in Finished
    BY <1>1, <1>2, <1>4
  <2>2. t \notin Items(active') /\ Items(inactive') = Items(inactive)
    BY <2>1, DeactivateSets DEF Items
  <2>3. t \notin Items(inactive)
    BY <1>2, <1>4 DEF Partition, Managed
  <2> QED
    BY <1>4, <2>1, <2>2, <2>3 DEF Managed, u
<1> QED
  BY <1>3, <1>4

\* A step that gives no mutex away keeps the owners, if each owner keeps its place,
\* or, being gone, its status.
LEMMA OwnersKept ==
    ASSUME TypeOK, OwnerInv,
           \A m \in Mutex : activeMutexes'[m] \in {NoTask, activeMutexes[m]},
           \A m \in Mutex, u \in Task : activeMutexes'[m] = u =>
             /\ u \in Items(active) => u \in Items(active') /\ mutexes'[u] = mutexes[u]
             /\ u \notin Managed /\ status[u] \in Finished =>
                  u \notin Managed' /\ status'[u] \in Finished
    PROVE  OwnerInv'
<1> SUFFICES ASSUME NEW m \in Mutex, activeMutexes'[m] # NoTask
             PROVE  \/ /\ activeMutexes'[m] \in Items(active')
                       /\ m \in mutexes'[activeMutexes'[m]]
                    \/ /\ activeMutexes'[m] \notin Managed'
                       /\ status'[activeMutexes'[m]] \in Finished
  BY DEF OwnerInv
<1>1. activeMutexes'[m] = activeMutexes[m] /\ activeMutexes[m] \in Task
  BY DEF TypeOK
<1> DEFINE u == activeMutexes[m]
<1>2. \/ u \in Items(active) /\ m \in mutexes[u]
      \/ u \notin Managed /\ status[u] \in Finished
  BY <1>1, TaskAssumption DEF OwnerInv
<1> QED
  BY <1>1, <1>2

\* A task that changes its list holds nothing.
LEMMA ChangedOwners ==
    ASSUME TypeOK, NEW t \in Task, OnMutexesChanged(t)
    PROVE  \A m \in Mutex : /\ activeMutexes'[m] \in {NoTask, activeMutexes[m]}
                            /\ activeMutexes'[m] # t
BY TaskAssumption DEF OnMutexesChanged, Released, TypeOK

LEMMA OwnerStep ==
    /\ TypeOK /\ TypeOK' /\ Partition /\ Partition'
    /\ GrayInv /\ StealInv /\ OwnerInv /\ [Next]_vars
    => OwnerInv'
<1> SUFFICES ASSUME TypeOK, TypeOK', Partition, Partition', GrayInv, StealInv, OwnerInv,
                    [Next]_vars
             PROVE  OwnerInv'
  OBVIOUS
<1> USE DEF vars, objects, books, locals
<1>1. ASSUME NEW t \in Task, Add(t) PROVE OwnerInv'
  <2>1. /\ activeMutexes' = activeMutexes /\ active' = active /\ status' = status
        /\ Items(inactive') = Items(inactive) \cup {t}
        /\ t \notin Managed /\ status[t] = "INACTIVE"
        /\ \A u \in Task \ {t} : mutexes'[u] = mutexes[u]
    BY <1>1, AddConsistent DEF Add, TypeOK, Partition
  <2> QED
    BY <2>1, OwnersKept DEF Managed, Finished
<1>2. ASSUME NEW t \in Task, Stop(t) PROVE OwnerInv'
  BY <1>2, OwnersKept DEF Stop, Stoppable, Managed, Finished, TypeOK
<1>3. ASSUME NEW S \in SUBSET Managed, StopAll(S) PROVE OwnerInv'
  BY <1>3, OwnersKept DEF StopAll, Managed, Finished, TypeOK
<1>4. CASE GrayStep
  <2> DEFINE t == gray.items[1]
  <2>1. t \in Task /\ UNCHANGED <<status, mutexes>>
    BY <1>4 DEF GrayStep, TypeOK, IsSet
  <2>2. CASE Deactivate(t, status[t]) /\ activeMutexes' = Released(t, mutexes[t])
    <3> HIDE DEF t
    <3>1. \A m \in Mutex :
             LET u == Released(t, mutexes[t])[m]
             IN  \/ u = NoTask
                 \/ u \in Items(active') /\ m \in mutexes'[u]
                 \/ u \notin Managed' /\ status'[u] \in Finished
      BY <2>1, <2>2, DeactivateOwners
    <3> QED
      BY <2>2, <3>1 DEF OwnerInv
  <2>3. CASE /\ Conflicts(t) = {}
             /\ activeMutexes' = Granted(t, mutexes[t])
             /\ UNCHANGED <<active, inactive>>
    <3>1. t \in Items(active)
      <4>1. pc = "gray" /\ ~Stuck
        BY <1>4, <2>3 DEF GrayStep, Stuck
      <4>2. GrayActive
        BY <4>1 DEF GrayInv
      <4>3. t \in Items(gray)
        BY <1>4, FirstItem DEF GrayStep, TypeOK
      <4> HIDE DEF t
      <4> QED
        BY <4>2, <4>3 DEF GrayActive
    <3> HIDE DEF t
    <3> QED
      BY <2>1, <2>3, <3>1 DEF OwnerInv, Granted, Managed
  <2> QED
    BY <1>4, <2>2, <2>3 DEF GrayStep
<1>5. ASSUME NEW t \in Task, ThrowAway(t) PROVE OwnerInv'
  <2>1. /\ activeMutexes' = activeMutexes /\ active' = active
        /\ status' = status /\ mutexes' = mutexes
        /\ Items(inactive') = Items(inactive) \ {t}
    BY <1>5, RemoveConsistent DEF ThrowAway, TypeOK, Partition
  <2> QED
    BY <2>1, OwnersKept DEF Managed
<1>6. ASSUME NEW t \in Task, ChooseFree(t) PROVE OwnerInv'
  <2>1. /\ activeMutexes' = Granted(t, mutexes[t])
        /\ status' = status /\ mutexes' = mutexes
        /\ Items(active') = Items(active) \cup {t}
        /\ Items(inactive') = Items(inactive) \ {t} /\ t \in Items(inactive)
    BY <1>6, ChosenSets DEF ChooseFree
  <2> QED
    BY <2>1 DEF OwnerInv, Granted, Managed
<1>7. ASSUME NEW t \in Task, ChooseSteal(t) PROVE OwnerInv'
  <2>1. /\ activeMutexes' = activeMutexes /\ status' = status /\ mutexes' = mutexes
        /\ Items(active') = Items(active) \cup {t}
        /\ Items(inactive') = Items(inactive) \ {t} /\ t \in Items(inactive)
    BY <1>7, ChosenSets DEF ChooseSteal
  <2> QED
    BY <2>1, OwnersKept DEF Managed
<1>8. ASSUME NEW m \in Mutex, Steal(m) PROVE OwnerInv'
  <2>1. /\ thief \in Items(active) /\ m \in mutexes[thief]
        /\ UNCHANGED <<status, mutexes>>
    BY <1>8 DEF Steal, StealInv
  <2>2. CASE activeMutexes[m] = NoTask
    <3>1. UNCHANGED <<active, inactive>> /\ activeMutexes' = Granted(thief, {m})
      BY <1>8, <2>2 DEF Steal
    <3> QED
      BY <2>1, <3>1 DEF OwnerInv, Granted, Managed
  <2>3. CASE activeMutexes[m] # NoTask
    <3> DEFINE owner == activeMutexes[m]
    <3>1. /\ owner \in Task /\ owner # thief /\ Deactivate(owner, status[owner])
          /\ activeMutexes' = [Released(owner, mutexes[owner]) EXCEPT ![m] = thief]
      BY <1>8, <2>3 DEF Steal, StealInv, TypeOK
    <3> HIDE DEF owner
    <3>2. \A n \in Mutex :
             LET u == Released(owner, mutexes[owner])[n]
             IN  \/ u = NoTask
                 \/ u \in Items(active') /\ n \in mutexes'[u]
                 \/ u \notin Managed' /\ status'[u] \in Finished
      BY <2>1, <3>1, DeactivateOwners
    <3>3. thief \in Items(active') /\ m \in mutexes'[thief]
      BY <2>1, <3>1, DeactivateSets
    <3>4. /\ activeMutexes'[m] = thief
          /\ \A n \in Mutex \ {m} :
                activeMutexes'[n] = Released(owner, mutexes[owner])[n]
      BY <3>1 DEF Released
    <3> QED
      BY <3>2, <3>3, <3>4 DEF OwnerInv
  <2> QED
    BY <2>2, <2>3
<1>9. ASSUME NEW t \in Task, Resume(t) \/ RunOn(t) PROVE OwnerInv'
  <2>1. /\ UNCHANGED <<active, inactive>>
        /\ t \in Items(active)
        /\ \A u \in Task \ {t} : status'[u] = status[u]
    BY <1>9, ItemsType DEF Resume, RunOn, Resuming, Running, TypeOK
  <2>2. CASE UNCHANGED <<mutexes, activeMutexes>>
    BY <2>1, <2>2, OwnersKept DEF Managed
  <2>3. CASE OnMutexesChanged(t) /\ \E ms \in MutexLists[t] : ChangeList(t, ms)
    <3>1. \A u \in Task \ {t} : mutexes'[u] = mutexes[u]
      BY <2>3 DEF ChangeList, TypeOK
    <3> QED
      BY <2>1, <2>3, <3>1, ChangedOwners, OwnersKept DEF Managed
  <2> QED
    BY <1>9, <2>2, <2>3 DEF Resume, RunOn
<1>10. ASSUME NEW t \in Task, Interrupt(t) PROVE OwnerInv'
  <2>1. /\ UNCHANGED <<mutexes, active, inactive, activeMutexes>>
        /\ t \in Items(inactive)
        /\ \A u \in Task \ {t} : status'[u] = status[u]
    BY <1>10, ItemsType DEF Interrupt, Interrupting, TypeOK
  <2> QED
    BY <2>1, OwnersKept DEF Managed, Partition
<1>11. ASSUME NEW t \in Task, RunLast(t) \/ RunLastRestoring(t) PROVE OwnerInv'
  <2>1. PICK st, ms : st \in Finished /\ Finish(t, st, ms)
    BY <1>11 DEF RunLast, RunLastRestoring, Finished
  <2>2. \A u \in Task \ {t} : status'[u] = status[u] /\ mutexes'[u] = mutexes[u]
    BY <1>11, <2>1 DEF RunLast, RunLastRestoring, ChangeList, Finish, TypeOK
  <2>3. /\ Deactivate(t, st) /\ status'[t] = st
        /\ activeMutexes' = Released(t, ms)
    BY <2>1 DEF Finish, TypeOK
  <2>4. \A m \in Mutex :
           LET u == Released(t, ms)[m]
           IN  \/ u = NoTask
               \/ u \in Items(active') /\ m \in mutexes'[u]
               \/ u \notin Managed' /\ status'[u] \in Finished
    BY <2>1, <2>2, <2>3, DeactivateOwners
  <2> QED
    BY <2>3, <2>4 DEF OwnerInv
<1>12. CASE UNCHANGED <<status, mutexes, active, inactive, activeMutexes>>
  BY <1>12 DEF OwnerInv, Managed
<1>13. CASE Begin \/ GrayDone \/ ActivateDone \/ ResumeDone \/ Rescheduled \/ IterateDone
  BY <1>12, <1>13 DEF Begin, GrayDone, ActivateDone, ResumeDone, Rescheduled, IterateDone
<1>14. ASSUME NEW t \in Task, Pass(t) \/ ResumeOld(t) PROVE OwnerInv'
  BY <1>12, <1>14 DEF Pass, ResumeOld
<1> QED
  BY <1>1, <1>2, <1>3, <1>4, <1>5, <1>6, <1>7, <1>8, <1>9, <1>10, <1>11, <1>12, <1>13,
     <1>14 DEF Next, Commands, Iterate, Reschedule, Run

-----------------------------------------------------------------------------
(* The gray set.                                                             *)

LEMMA IndexedRemoveAny ==
    ASSUME NEW E, NEW S, IsSet(S, E), NEW x, IndexedBy(S, 0)
    PROVE  /\ IndexedBy(SetRemove(S, x), 0)
           /\ Items(SetRemove(S, x)) \subseteq Items(S) \ {x}
<1>1. CASE SetHas(S, x)
  BY <1>1, IndexedRemove
<1>2. CASE ~SetHas(S, x)
  BY <1>2 DEF SetRemove, IndexedBy, Items, SetHas
<1> QED
  BY <1>1, <1>2

LEMMA IndexedAddAny ==
    ASSUME NEW E, NEW S, IsSet(S, E), NEW x \in E, IndexedBy(S, 0)
    PROVE  /\ IndexedBy(SetAdd(S, x), 0)
           /\ Items(SetAdd(S, x)) \subseteq Items(S) \cup {x}
           /\ SetHas(SetAdd(S, x), x)
<1>1. CASE SetHas(S, x)
  BY <1>1 DEF SetAdd
<1>2. CASE ~SetHas(S, x)
  BY <1>2, IndexedAdd DEF SetHas
<1> QED
  BY <1>1, <1>2

LEMMA RemoveFromEmpty ==
    ASSUME NEW S, NEW x, S.items = <<>>
    PROVE  SetRemove(S, x).items = <<>>
<1>1. \A k : Splice(S.items, k) = S.items
  BY DEF Splice
<1> QED
  BY <1>1 DEF SetRemove

\* A step of the first loop that is stuck changes nothing of what it is stuck on.
LEMMA StuckStays ==
    ASSUME TypeOK, Partition, GrayStep, Stuck
    PROVE  Stuck'
<1> DEFINE t == gray.items[1]
<1>1. gray.items # <<>> /\ UNCHANGED <<status, mutexes>> /\ t \in Task
  BY FirstItem, ItemsType DEF GrayStep, objects, TypeOK
<1>2. /\ ~SetHas(gray, t) /\ Conflicts(t) # {}
      /\ \A m \in Mutex : activeMutexes[m] # t
      /\ t \notin Items(active)
      /\ status[t] \in Finished \/ t \in Items(inactive)
  BY DEF Stuck
<1>3. /\ Deactivate(t, status[t])
      /\ activeMutexes' = Released(t, mutexes[t])
  BY <1>2 DEF GrayStep
<1> HIDE DEF t
<1>4. activeMutexes' = activeMutexes
  BY <1>2, <1>3 DEF Released, TypeOK
<1>5. gray' = gray
  BY <1>2, <1>3 DEF Deactivate, SetRemove
<1>6. Items(active') = Items(active) \ {t} /\ Items(inactive) \subseteq Items(inactive')
  BY <1>1, <1>3, DeactivateSets
<1> QED
  BY <1>1, <1>2, <1>4, <1>5, <1>6 DEF Stuck, Conflicts, t

\* The steps of the first loop: it advances, or it is stuck for ever.
LEMMA GrayLoop ==
    ASSUME TypeOK, TypeOK', Partition, GrayInv, GrayStep
    PROVE  Stuck' \/ (IndexedBy(gray', HeadShift(gray')) /\ GrayActive')
<1> DEFINE t == gray.items[1]
           s == HeadShift(gray)
<1>1. /\ pc = "gray" /\ gray.items # <<>> /\ UNCHANGED <<status, mutexes>>
      /\ Stuck \/ (IndexedBy(gray, s) /\ GrayActive)
  BY DEF GrayStep, GrayInv, objects
<1>2. t \in Task /\ t \in Items(gray)
  BY <1>1, FirstItem, ItemsType DEF TypeOK
<1>3. CASE Stuck
  BY <1>3, StuckStays
<1>4. CASE IndexedBy(gray, s) /\ GrayActive
  <2>1. s \in Nat
    BY <1>1, <1>4, FirstItem DEF IndexedBy, HeadShift, TypeOK
  <2>2. t \in Items(active) /\ \A m \in Mutex : activeMutexes[m] # t
    BY <1>2, <1>4 DEF GrayActive
  <2>3. CASE Conflicts(t) # {}
    <3>1. /\ Deactivate(t, status[t])
          /\ activeMutexes' = Released(t, mutexes[t])
      BY <2>3 DEF GrayStep
    <3>2. gray' = SetRemove(gray, t)
      BY <3>1 DEF Deactivate
    <3>3. activeMutexes' = activeMutexes
      <4> HIDE DEF t
      <4> QED
        BY <2>2, <3>1 DEF Released, TypeOK
    <3>4. /\ Items(active') = Items(active) \ {t}
          /\ status[t] \in Finished \/ t \in Items(inactive')
      <4> HIDE DEF t
      <4> QED
        BY <1>2, <3>1, DeactivateSets
    <3>5. CASE s = 0
      <4>1. IndexedBy(gray', 0) /\ Items(gray') \subseteq Items(gray) \ {t}
        BY <1>4, <3>2, <3>5, IndexedRemoveAny DEF TypeOK
      <4>2. IndexedBy(gray', HeadShift(gray'))
        BY <4>1, IndexedByHead DEF TypeOK
      <4>3. GrayActive'
        BY <1>4, <3>3, <3>4, <4>1 DEF GrayActive
      <4> QED
        BY <4>2, <4>3
    <3>6. CASE s # 0
      <4>1. gray'.items # <<>> /\ gray'.items[1] = t /\ ~SetHas(gray', t)
        BY <1>1, <1>4, <2>1, <3>2, <3>6, IndexedStuck DEF TypeOK
      <4>2. t \notin Items(active')
        BY <3>4
      <4>3. {m \in mutexes'[t] : activeMutexes'[m] # NoTask} # {}
        BY <1>1, <2>3, <3>3 DEF Conflicts
      <4>4. status'[t] \in Finished \/ t \in Items(inactive')
        BY <1>1, <3>4
      <4>5. \A m \in Mutex : activeMutexes'[m] # t
        BY <2>2, <3>3
      <4> HIDE DEF t
      <4> QED
        BY <4>1, <4>2, <4>3, <4>4, <4>5 DEF Stuck, Conflicts
    <3> QED
      BY <3>5, <3>6
  <2>4. CASE Conflicts(t) = {}
    <3>1. /\ activeMutexes' = Granted(t, mutexes[t])
          /\ gray' = ShiftArray(gray) /\ active' = active
      BY <2>4 DEF GrayStep
    <3>2. IndexedBy(gray', s + 1) /\ Items(gray') = Items(gray) \ {t}
      BY <1>1, <1>4, <2>1, <3>1, IndexedShift DEF TypeOK
    <3>3. IndexedBy(gray', HeadShift(gray'))
      BY <2>1, <3>2, IndexedByHead DEF TypeOK
    <3>4. GrayActive'
      <4> HIDE DEF t
      <4> QED
        BY <1>4, <3>1, <3>2 DEF GrayActive, Granted
    <3> QED
      BY <3>3, <3>4
  <2> QED
    BY <2>3, <2>4
<1> QED
  BY <1>1, <1>3, <1>4

\* A step of the first loop that does not end up stuck makes the array shorter.
LEMMA GrayShrinks ==
    ASSUME TypeOK, TypeOK', Partition, GrayInv, GrayStep, ~Stuck'
    PROVE  Len(gray'.items) < Len(gray.items)
<1> DEFINE t == gray.items[1]
           s == HeadShift(gray)
<1>1. /\ pc = "gray" /\ gray.items # <<>> /\ IsSet(gray, Task)
      /\ gray.items \in Seq(Task) /\ Len(gray.items) \in Nat \ {0}
  BY FirstItem, ItemsType DEF GrayStep, TypeOK
<1>2. IndexedBy(gray, s) /\ s = gray.keys[t]
  BY <1>1, StuckStays DEF GrayInv, HeadShift
<1>3. s \in Nat /\ SetHas(gray, t)
  BY <1>1, <1>2 DEF IndexedBy, SetHas
<1>4. CASE gray' = ShiftArray(gray)
  BY <1>1, <1>4 DEF ShiftArray
<1>5. CASE gray' = SetRemove(gray, t)
  <2>1. CASE s = 0
    <3>1. Len(gray'.items) = Len(gray.items) - 1
      <4>1. IndexedBy(gray, 0) /\ gray.keys[t] = 0
        BY <1>2, <2>1
      <4> HIDE DEF t, s
      <4>2. Len(SetRemove(gray, t).items) = Len(gray.items) - 1
        BY <1>1, <1>3, <4>1, IndexedRemove
      <4> QED
        BY <1>5, <4>2
    <3> QED
      BY <1>1, <3>1
  <2>2. CASE s # 0
    <3>1. gray'.items # <<>> /\ gray'.items[1] = t /\ ~SetHas(gray', t)
      BY <1>1, <1>2, <1>3, <1>5, <2>2, IndexedStuck
    <3>2. \A n \in 1 .. Len(gray'.items) : gray'.items[n] \in DOMAIN gray'.keys
      BY GrayLoop DEF IndexedBy
    <3>3. Len(gray'.items) \in Nat \ {0}
      BY <3>1, FirstItem DEF TypeOK
    <3> QED
      BY <3>1, <3>2, <3>3 DEF SetHas
  <2> QED
    BY <2>1, <2>2
<1> QED
  BY <1>4, <1>5 DEF GrayStep, Deactivate

\* Outside the first loop the gray set stays indexed.
LEMMA GrayKept ==
    ASSUME TypeOK, IndexedBy(gray', 0), pc' # "gray",
           pc' \in {"activate", "steal"} => gray'.items = <<>>,
           \A u \in Items(gray') : /\ u \in Items(active')
                                  /\ \A m \in Mutex : activeMutexes'[m] # u
    PROVE  GrayInv'
BY DEF GrayInv, GrayActive

LEMMA GraySameKept ==
    ASSUME GrayInv, pc # "gray", pc' # "gray",
           pc' \in {"activate", "steal"} => pc \in {"activate", "steal"},
           UNCHANGED <<gray, active, activeMutexes>>
    PROVE  GrayInv'
BY DEF GrayInv, GrayActive

LEMMA GrayInvStep ==
    /\ TypeOK /\ TypeOK' /\ Partition /\ Partition' /\ GrayInv /\ [Next]_vars
    => GrayInv'
<1> SUFFICES ASSUME TypeOK, TypeOK', Partition, Partition', GrayInv, [Next]_vars
             PROVE  GrayInv'
  OBVIOUS
<1> USE DEF vars, objects, books, locals
<1>1. CASE Commands
  BY <1>1, GraySameKept DEF Commands, Add, Stop, StopAll
<1>2. CASE Begin
  <2>1. IndexedBy(gray, 0) /\ IndexedBy(gray, HeadShift(gray)) /\ GrayActive
    BY <1>2, IndexedByHead DEF Begin, GrayInv, TypeOK
  <2> QED
    BY <1>2, <2>1 DEF Begin, GrayInv, GrayActive
<1>3. CASE GrayStep
  BY <1>3, GrayLoop DEF GrayStep, GrayInv
<1>4. CASE GrayDone
  <2>1. IndexedBy(gray, 0) /\ GrayActive
    BY <1>4 DEF GrayDone, GrayInv, Stuck, HeadShift
  <2> QED
    BY <1>4, <2>1 DEF GrayDone, GrayInv, GrayActive
<1>5. ASSUME NEW t \in Task, ThrowAway(t) \/ Pass(t) PROVE GrayInv'
  BY <1>5, GraySameKept DEF ThrowAway, Pass, Considering
<1>6. ASSUME NEW t \in Task, ChooseFree(t) \/ ChooseSteal(t) PROVE GrayInv'
  <2>1. /\ pc = "activate" /\ pc' \in {"activate", "steal"} /\ gray' = gray
    BY <1>6 DEF ChooseFree, ChooseSteal, Considering
  <2>2. gray.items = <<>> /\ IndexedBy(gray, 0)
    BY <2>1 DEF GrayInv
  <2> QED
    BY <2>1, <2>2, GrayKept DEF Items
<1>7. ASSUME NEW m \in Mutex, Steal(m) PROVE GrayInv'
  <2>1. pc = "steal" /\ pc' \in {"activate", "steal"}
    BY <1>7 DEF Steal
  <2>2. gray.items = <<>> /\ IndexedBy(gray, 0)
    BY <2>1 DEF GrayInv
  <2>3. gray' = gray \/ gray' = SetRemove(gray, activeMutexes[m])
    BY <1>7 DEF Steal, Deactivate
  <2>4. gray'.items = <<>> /\ IndexedBy(gray', 0)
    BY <2>2, <2>3, RemoveFromEmpty, IndexedRemoveAny DEF TypeOK
  <2> QED
    BY <2>1, <2>4, GrayKept DEF Items
<1>8. ASSUME NEW t \in Task, Resume(t) \/ RunOn(t) PROVE GrayInv'
  <2>1. /\ pc' = pc /\ pc \in {"resume", "run"} /\ active' = active
        /\ t \in Items(active)
    BY <1>8, ItemsType DEF Resume, RunOn, Resuming, Running, TypeOK
  <2>2. CASE UNCHANGED <<gray, activeMutexes>>
    BY <2>1, <2>2, GraySameKept
  <2>3. CASE OnMutexesChanged(t)
    <3>1. IndexedBy(gray, 0) /\ GrayActive
      BY <2>1 DEF GrayInv
    <3>2. IndexedBy(gray', 0) /\ Items(gray') \subseteq Items(gray) \cup {t}
      BY <2>3, <3>1, IndexedAddAny DEF OnMutexesChanged, TypeOK
    <3>3. \A m \in Mutex : /\ activeMutexes'[m] \in {NoTask, activeMutexes[m]}
                           /\ activeMutexes'[m] # t
      BY <2>3, ChangedOwners
    <3>4. \A u \in Items(gray') : u \in Task
      BY ItemsType DEF TypeOK
    <3> QED
      BY <2>1, <3>1, <3>2, <3>3, <3>4, GrayKept, TaskAssumption DEF GrayActive
  <2> QED
    BY <1>8, <2>2, <2>3 DEF Resume, RunOn
<1>9. ASSUME NEW t \in Task, RunLast(t) \/ RunLastRestoring(t) PROVE GrayInv'
  <2>1. PICK st, ms : st \in Finished /\ Finish(t, st, ms)
    BY <1>9 DEF RunLast, RunLastRestoring, Finished
  <2>2. /\ Deactivate(t, st) /\ activeMutexes' = Released(t, ms)
        /\ pc = "run" /\ pc' = "run"
    BY <1>9, <2>1 DEF Finish, RunLast, RunLastRestoring, Running
  <2>3. Items(active') = Items(active) \ {t}
    BY <2>2, DeactivateSets
  <2>4. IndexedBy(gray, 0) /\ GrayActive
    BY <2>2 DEF GrayInv
  <2>5. IndexedBy(gray', 0) /\ Items(gray') \subseteq Items(gray) \ {t}
    BY <2>2, <2>4, IndexedRemoveAny DEF Deactivate, TypeOK
  <2>6. \A m \in Mutex : activeMutexes'[m] \in {NoTask, activeMutexes[m]}
    BY <2>2 DEF Released
  <2>7. \A u \in Items(gray') : u \in Task
    BY ItemsType DEF TypeOK
  <2> QED
    BY <2>2, <2>3, <2>4, <2>5, <2>6, <2>7, GrayKept, TaskAssumption DEF GrayActive
<1>10. CASE ActivateDone \/ ResumeDone \/ Rescheduled \/ IterateDone
  BY <1>10, GraySameKept DEF ActivateDone, ResumeDone, Rescheduled, IterateDone
<1>11. ASSUME NEW t \in Task, ResumeOld(t) \/ Interrupt(t) PROVE GrayInv'
  BY <1>11, GraySameKept DEF ResumeOld, Interrupt, Resuming, Interrupting
<1>12. CASE UNCHANGED vars
  BY <1>12 DEF GrayInv, GrayActive, Stuck, Conflicts
<1> QED
  BY <1>1, <1>2, <1>3, <1>4, <1>5, <1>6, <1>7, <1>8, <1>9, <1>10, <1>11, <1>12
     DEF Next, Iterate, Reschedule, Run

-----------------------------------------------------------------------------
(* The statuses.                                                             *)

LEMMA StatusesBefore ==
    ASSUME TypeOK, StatusInv, pc \in {"gray", "activate", "steal"}
    PROVE  /\ \A t \in Items(active) : NewlyActive(t)
           /\ \A t \in Items(inactive) : NewlyInactive(t)
           /\ \A t \in Task : ~(SetHas(oldActive, t) /\ SetHas(oldInactive, t))
<1>1. pc \in Rescheduling /\ pc \in Rescheduling \ {"interrupt"}
  BY DEF Rescheduling
<1>2. ASSUME NEW t \in Items(active) PROVE NewlyActive(t)
  <2>1. PICK n \in 1 .. Len(active.items) : t = active.items[n]
    BY DEF Items
  <2> QED
    BY <2>1 DEF StatusInv
<1>3. ASSUME NEW t \in Items(inactive) PROVE NewlyInactive(t)
  <2>1. PICK n \in 1 .. Len(inactive.items) : t = inactive.items[n]
    BY DEF Items
  <2> QED
    BY <1>1, <2>1 DEF StatusInv
<1> QED
  BY <1>1, <1>2, <1>3 DEF StatusInv

LEMMA StatusesAfter ==
    ASSUME pc' \in {"gray", "activate", "steal"},
           \A t \in Items(active') : NewlyActive(t)',
           \A t \in Items(inactive') : NewlyInactive(t)',
           \A t \in Task : ~(SetHas(oldActive', t) /\ SetHas(oldInactive', t))
    PROVE  StatusInv'
<1>1. \A n \in 1 .. Len(active'.items) : active'.items[n] \in Items(active')
  BY DEF Items
<1>2. \A n \in 1 .. Len(inactive'.items) : inactive'.items[n] \in Items(inactive')
  BY DEF Items
<1>3. pc' # "interrupt" /\ pc' # "resume"
  OBVIOUS
<1> QED
  BY <1>1, <1>2, <1>3 DEF StatusInv, Rescheduling

\* Between calls and while the tasks run, every member has the status of its set.
LEMMA StatusesSettled ==
    ASSUME TypeOK, StatusInv, pc \in {"idle", "run"}
    PROVE  /\ \A t \in Items(active) : Ran(t)
           /\ \A t \in Items(inactive) : Waits(t)
<1>1. ASSUME NEW t \in Items(active) PROVE Ran(t)
  <2>1. PICK n \in 1 .. Len(active.items) : t = active.items[n]
    BY DEF Items
  <2> QED
    BY <2>1 DEF StatusInv
<1>2. ASSUME NEW t \in Items(inactive) PROVE Waits(t)
  <2>1. PICK n \in 1 .. Len(inactive.items) : t = inactive.items[n]
    BY DEF Items
  <2> QED
    BY <2>1 DEF StatusInv, Rescheduling
<1> QED
  BY <1>1, <1>2

LEMMA StatusesSettledAfter ==
    ASSUME pc' \in {"idle", "run"},
           \A t \in Items(active') : Ran(t)',
           \A t \in Items(inactive') : Waits(t)'
    PROVE  StatusInv'
<1>1. \A n \in 1 .. Len(active'.items) : active'.items[n] \in Items(active')
  BY DEF Items
<1>2. \A n \in 1 .. Len(inactive'.items) : inactive'.items[n] \in Items(inactive')
  BY DEF Items
<1> QED
  BY <1>1, <1>2 DEF StatusInv, Rescheduling

\* A deactivated task has the status of one that waits, or will be told to wait.
LEMMA DeactivateStatuses ==
    ASSUME TypeOK, Partition, StatusInv, NEW t \in Task, Deactivate(t, status[t]),
           t \in Items(active) \/ t \in Items(inactive) \/ status[t] \in Finished,
           pc \in {"gray", "activate", "steal"}, pc' \in {"gray", "activate", "steal"},
           UNCHANGED <<status, oldActive, oldInactive>>
    PROVE  StatusInv'
<1>1. /\ \A u \in Items(active) : NewlyActive(u)
      /\ \A u \in Items(inactive) : NewlyInactive(u)
      /\ \A u \in Task : ~(SetHas(oldActive, u) /\ SetHas(oldInactive, u))
  BY StatusesBefore
<1>2. /\ Items(active') = Items(active) \ {t}
      /\ status[t] \in Finished => Items(inactive') = Items(inactive)
      /\ status[t] \notin Finished => Items(inactive') = Items(inactive) \cup {t}
  BY DeactivateSets
<1>3. ASSUME NEW u \in Items(inactive') PROVE NewlyInactive(u)
  <2>1. CASE u \in Items(inactive)
    BY <1>1, <2>1
  <2>2. CASE u \notin Items(inactive)
    <3>1. u = t /\ status[t] \notin Finished /\ t \in Items(active)
      BY <1>2, <1>3, <2>2
    <3>2. NewlyActive(t)
      BY <1>1, <3>1
    <3> QED
      BY <1>1, <3>1, <3>2 DEF NewlyActive, NewlyInactive, Ran, Waits, Finished
  <2> QED
    BY <2>1, <2>2
<1>4. \A u : NewlyActive(u)' = NewlyActive(u) /\ NewlyInactive(u)' = NewlyInactive(u)
  BY DEF NewlyActive, NewlyInactive, Ran, Waits
<1> QED
  BY <1>1, <1>2, <1>3, <1>4, StatusesAfter

LEMMA ChosenStatuses ==
    ASSUME TypeOK, Partition, StatusInv, NEW t \in Task, Considering(t), Chosen(t),
           status[t] # "STOPPED", pc' \in {"gray", "activate", "steal"},
           UNCHANGED <<status, oldActive, oldInactive>>
    PROVE  StatusInv'
<1>1. /\ \A u \in Items(active) : NewlyActive(u)
      /\ \A u \in Items(inactive) : NewlyInactive(u)
      /\ \A u \in Task : ~(SetHas(oldActive, u) /\ SetHas(oldInactive, u))
  BY StatusesBefore DEF Considering
<1>2. /\ t \in Items(inactive)
      /\ Items(active') = Items(active) \cup {t}
      /\ Items(inactive') = Items(inactive) \ {t}
  BY ChosenSets
<1>3. NewlyActive(t)
  BY <1>1, <1>2 DEF NewlyActive, NewlyInactive, Ran, Waits
<1>4. \A u : NewlyActive(u)' = NewlyActive(u) /\ NewlyInactive(u)' = NewlyInactive(u)
  BY DEF NewlyActive, NewlyInactive, Ran, Waits
<1> QED
  BY <1>1, <1>2, <1>3, <1>4, StatusesAfter

LEMMA StatusStep ==
    /\ TypeOK /\ TypeOK' /\ Partition /\ Partition' /\ OwnerInv /\ GrayInv
    /\ StatusInv /\ [Next]_vars
    => StatusInv'
<1> SUFFICES ASSUME TypeOK, TypeOK', Partition, Partition', OwnerInv, GrayInv, StatusInv,
                    [Next]_vars
             PROVE  StatusInv'
  OBVIOUS
<1> USE DEF vars, objects, books, locals
<1>1. ASSUME NEW t \in Task, Add(t) PROVE StatusInv'
  <2>1. /\ pc = "idle" /\ pc' = "idle" /\ active' = active /\ status' = status
        /\ Items(inactive') = Items(inactive) \cup {t} /\ status[t] = "INACTIVE"
    BY <1>1, AddConsistent DEF Add, TypeOK, Partition
  <2>2. \A u : Ran(u)' = Ran(u) /\ Waits(u)' = Waits(u)
    BY <2>1 DEF Ran, Waits
  <2>3. Waits(t)
    BY <2>1 DEF Waits
  <2> QED
    BY <2>1, <2>2, <2>3, StatusesSettled, StatusesSettledAfter
<1>2. ASSUME NEW t \in Task, Stop(t) PROVE StatusInv'
  <2>1. /\ pc = "idle" /\ pc' = "idle" /\ UNCHANGED <<active, inactive>>
        /\ status' = [status EXCEPT ![t] = "STOPPED"]
    BY <1>2 DEF Stop
  <2>2. \A u \in Task : (Ran(u) => Ran(u)') /\ (Waits(u) => Waits(u)')
    BY <2>1 DEF Ran, Waits, TypeOK
  <2> QED
    BY <2>1, <2>2, ItemsType, StatusesSettled, StatusesSettledAfter DEF TypeOK
<1>3. ASSUME NEW S \in SUBSET Managed, StopAll(S) PROVE StatusInv'
  <2>1. /\ pc = "idle" /\ pc' = "idle" /\ UNCHANGED <<active, inactive>>
        /\ status' = [t \in Task |-> IF t \in S THEN "STOPPED" ELSE status[t]]
    BY <1>3 DEF StopAll
  <2>2. \A u \in Task : (Ran(u) => Ran(u)') /\ (Waits(u) => Waits(u)')
    BY <2>1 DEF Ran, Waits, TypeOK
  <2> QED
    BY <2>1, <2>2, ItemsType, StatusesSettled, StatusesSettledAfter DEF TypeOK
<1>4. CASE Begin
  <2>1. /\ pc = "idle" /\ UNCHANGED <<status, active, inactive>>
        /\ \/ pc' = "gray" /\ oldActive' = active /\ oldInactive' = inactive
           \/ pc' = "run"
    BY <1>4 DEF Begin
  <2>2. /\ \A t \in Items(active) : Ran(t)
        /\ \A t \in Items(inactive) : Waits(t)
    BY <2>1, StatusesSettled
  <2>3. \A u : Ran(u)' = Ran(u) /\ Waits(u)' = Waits(u)
    BY <2>1 DEF Ran, Waits
  <2>4. CASE pc' = "run"
    BY <2>1, <2>2, <2>3, <2>4, StatusesSettledAfter
  <2>5. CASE pc' = "gray" /\ oldActive' = active /\ oldInactive' = inactive
    <3>1. DOMAIN oldActive'.keys = Items(active) /\ DOMAIN oldInactive'.keys = Items(inactive)
      BY <2>5 DEF Partition, Consistent
    <3>2. ASSUME NEW u \in Items(active) PROVE NewlyActive(u)'
      <4>1. SetHas(oldActive, u)' /\ Ran(u)'
        BY <2>2, <2>3, <3>1 DEF SetHas
      <4> QED
        BY <4>1 DEF NewlyActive
    <3>3. ASSUME NEW u \in Items(inactive) PROVE NewlyInactive(u)'
      <4>1. SetHas(oldInactive, u)' /\ Waits(u)'
        BY <2>2, <2>3, <3>1 DEF SetHas
      <4> QED
        BY <4>1 DEF NewlyInactive
    <3>4. \A u \in Task : ~(SetHas(oldActive', u) /\ SetHas(oldInactive', u))
      BY <3>1 DEF Partition, SetHas
    <3>5. Items(active') = Items(active) /\ Items(inactive') = Items(inactive)
      BY <2>1
    <3> QED
      BY <2>5, <3>2, <3>3, <3>4, <3>5, StatusesAfter
  <2> QED
    BY <2>1, <2>4, <2>5
<1>5. CASE GrayStep
  <2> DEFINE t == gray.items[1]
  <2>1. /\ pc = "gray" /\ pc' = "gray" /\ UNCHANGED <<status, oldActive, oldInactive>>
        /\ gray.items # <<>>
    BY <1>5 DEF GrayStep
  <2>2. t \in Task /\ t \in Items(gray)
    BY <2>1, FirstItem, ItemsType DEF TypeOK
  <2>3. CASE Deactivate(t, status[t])
    <3>1. t \in Items(active) \/ t \in Items(inactive) \/ status[t] \in Finished
      BY <2>1, <2>2 DEF GrayInv, Stuck, GrayActive
    <3> HIDE DEF t
    <3> QED
      BY <2>1, <2>2, <2>3, <3>1, DeactivateStatuses
  <2>4. CASE UNCHANGED <<active, inactive>>
    BY <2>1, <2>4 DEF StatusInv, NewlyActive, NewlyInactive, Ran, Waits
  <2> QED
    BY <1>5, <2>3, <2>4 DEF GrayStep
<1>6. ASSUME NEW t \in Task, ThrowAway(t) PROVE StatusInv'
  <2>1. /\ pc = "activate" /\ pc' = "activate"
        /\ UNCHANGED <<status, active, oldActive, oldInactive>>
        /\ Items(inactive') = Items(inactive) \ {t}
    BY <1>6, RemoveConsistent DEF ThrowAway, Considering, TypeOK, Partition
  <2>2. \A u : NewlyActive(u)' = NewlyActive(u) /\ NewlyInactive(u)' = NewlyInactive(u)
    BY <2>1 DEF NewlyActive, NewlyInactive, Ran, Waits
  <2> QED
    BY <2>1, <2>2, StatusesBefore, StatusesAfter
<1>7. ASSUME NEW t \in Task, ChooseFree(t) \/ ChooseSteal(t) PROVE StatusInv'
  BY <1>7, ChosenStatuses DEF ChooseFree, ChooseSteal, Considering
<1>8. ASSUME NEW m \in Mutex, Steal(m) PROVE StatusInv'
  <2>1. /\ pc = "steal" /\ pc' \in {"activate", "steal"}
        /\ UNCHANGED <<status, oldActive, oldInactive>>
    BY <1>8 DEF Steal
  <2>2. CASE activeMutexes[m] = NoTask
    <3>1. UNCHANGED <<active, inactive>>
      BY <1>8, <2>2 DEF Steal
    <3>2. \A u : /\ NewlyActive(u)' = NewlyActive(u)
                /\ NewlyInactive(u)' = NewlyInactive(u)
      BY <2>1 DEF NewlyActive, NewlyInactive, Ran, Waits
    <3> QED
      BY <2>1, <3>1, <3>2, StatusesBefore, StatusesAfter
  <2>3. CASE activeMutexes[m] # NoTask
    <3>1. /\ activeMutexes[m] \in Task
          /\ Deactivate(activeMutexes[m], status[activeMutexes[m]])
      BY <1>8, <2>3 DEF Steal, TypeOK
    <3>2. \/ activeMutexes[m] \in Items(active)
          \/ status[activeMutexes[m]] \in Finished
      BY <2>3 DEF OwnerInv
    <3> QED
      BY <2>1, <3>1, <3>2, DeactivateStatuses
  <2> QED
    BY <2>2, <2>3
<1>9. ASSUME NEW t \in Task, Pass(t) PROVE StatusInv'
  BY <1>9 DEF Pass, Considering, StatusInv, NewlyActive, NewlyInactive, Ran, Waits,
     Rescheduling
<1>10. CASE GrayDone \/ ActivateDone
  <2>1. /\ pc \in {"gray", "activate"} /\ pc' \in {"activate", "resume"} /\ i' = 1
        /\ UNCHANGED <<status, active, inactive, oldActive, oldInactive>>
    BY <1>10 DEF GrayDone, ActivateDone
  <2> QED
    BY <2>1 DEF StatusInv, NewlyActive, NewlyInactive, Ran, Waits, Rescheduling
<1>11. ASSUME NEW t \in Task, Resume(t) PROVE StatusInv'
  <2>1. /\ pc = "resume" /\ pc' = "resume" /\ i' = i + 1 /\ i \in Nat
        /\ UNCHANGED <<active, inactive, oldActive, oldInactive>>
        /\ i \in 1 .. Len(active.items) /\ t = active.items[i] /\ ~SetHas(oldActive, t)
        /\ status' = [status EXCEPT ![t] = IF @ \in {"INACTIVE", "INTERRUPTED"}
                                           THEN "RUNNING" ELSE @]
    BY <1>11, ItemsType DEF Resume, Resuming, TypeOK
  <2>2. status[t] \in {"INACTIVE", "INTERRUPTED"}
    BY <2>1 DEF StatusInv, NewlyActive
  <2>3. status'[t] = "RUNNING" /\ \A u \in Task \ {t} : status'[u] = status[u]
    BY <2>1, <2>2 DEF TypeOK
  <2>4. ASSUME NEW n \in 1 .. Len(active.items)
        PROVE  IF n >= i + 1 THEN NewlyActive(active.items[n])' ELSE Ran(active.items[n])'
    <3>1. CASE n = i
      BY <2>1, <2>3, <3>1 DEF Ran
    <3>2. CASE n # i
      <4>1. active.items[n] # t /\ active.items[n] \in Task
        BY <2>1, <3>2, ConsistentDistinct, ItemsType DEF TypeOK, Partition
      <4>2. IF n >= i THEN NewlyActive(active.items[n]) ELSE Ran(active.items[n])
        BY <2>1 DEF StatusInv
      <4>3. status'[active.items[n]] = status[active.items[n]]
        BY <2>3, <4>1
      <4> QED
        BY <2>1, <3>2, <4>2, <4>3 DEF NewlyActive, Ran
    <3> QED
      BY <3>1, <3>2
  <2>5. ASSUME NEW n \in 1 .. Len(inactive.items)
        PROVE  NewlyInactive(inactive.items[n])'
    <3>1. inactive.items[n] \in Task /\ inactive.items[n] # t
      BY <2>1, ItemsType DEF TypeOK, Partition
    <3>2. NewlyInactive(inactive.items[n])
      BY <2>1 DEF StatusInv, Rescheduling
    <3> QED
      BY <2>1, <2>3, <3>1, <3>2 DEF NewlyInactive, Waits
  <2> QED
    BY <2>1, <2>4, <2>5 DEF StatusInv, Rescheduling
<1>12. ASSUME NEW t \in Task, ResumeOld(t) PROVE StatusInv'
  <2>1. /\ pc = "resume" /\ pc' = "resume" /\ i' = i + 1 /\ i \in Nat
        /\ UNCHANGED <<status, active, inactive, oldActive, oldInactive>>
        /\ i \in 1 .. Len(active.items) /\ t = active.items[i] /\ SetHas(oldActive, t)
    BY <1>12, ItemsType DEF ResumeOld, Resuming, TypeOK
  <2>2. ASSUME NEW n \in 1 .. Len(active.items)
        PROVE  IF n >= i + 1 THEN NewlyActive(active.items[n])' ELSE Ran(active.items[n])'
    <3>1. IF n >= i THEN NewlyActive(active.items[n]) ELSE Ran(active.items[n])
      BY <2>1 DEF StatusInv
    <3> QED
      BY <2>1, <3>1 DEF NewlyActive, Ran
  <2>3. ASSUME NEW n \in 1 .. Len(inactive.items)
        PROVE  NewlyInactive(inactive.items[n])'
    BY <2>1 DEF StatusInv, Rescheduling, NewlyInactive, Waits
  <2> QED
    BY <2>1, <2>2, <2>3 DEF StatusInv, Rescheduling
<1>13. CASE ResumeDone
  <2>1. /\ pc = "resume" /\ pc' = "interrupt" /\ i' = 1 /\ i > Len(active.items)
        /\ UNCHANGED <<status, active, inactive, oldActive, oldInactive>>
    BY <1>13 DEF ResumeDone
  <2>2. ASSUME NEW n \in 1 .. Len(active.items) PROVE Ran(active.items[n])'
    <3>1. ~(n >= i)
      BY <2>1, ItemsType DEF TypeOK
    <3>2. Ran(active.items[n])
      BY <2>1, <3>1 DEF StatusInv
    <3> QED
      BY <2>1, <3>2 DEF Ran
  <2>3. ASSUME NEW n \in 1 .. Len(inactive.items)
        PROVE  NewlyInactive(inactive.items[n])'
    BY <2>1 DEF StatusInv, Rescheduling, NewlyInactive, Waits
  <2>4. \A n \in 1 .. Len(inactive.items) : n >= 1
    OBVIOUS
  <2> QED
    BY <2>1, <2>2, <2>3, <2>4 DEF StatusInv, Rescheduling
<1>14. ASSUME NEW t \in Task, Interrupt(t) PROVE StatusInv'
  <2>1. /\ pc = "interrupt" /\ pc' = "interrupt" /\ i' = i + 1 /\ i \in Nat
        /\ UNCHANGED <<active, inactive, oldActive, oldInactive>>
        /\ i \in 1 .. Len(inactive.items) /\ t = inactive.items[i]
        /\ status' = IF SetHas(oldInactive, t) THEN status
                     ELSE [status EXCEPT ![t] = "INTERRUPTED"]
    BY <1>14, ItemsType DEF Interrupt, Interrupting, TypeOK
  <2>2. NewlyInactive(t)
    BY <2>1 DEF StatusInv
  <2>3. Waits(t)' /\ \A u \in Task \ {t} : status'[u] = status[u]
    BY <2>1, <2>2 DEF NewlyInactive, Waits, TypeOK
  <2>4. ASSUME NEW n \in 1 .. Len(inactive.items)
        PROVE  IF n >= i + 1 THEN NewlyInactive(inactive.items[n])'
               ELSE Waits(inactive.items[n])'
    <3>1. CASE n = i
      BY <2>1, <2>3, <3>1
    <3>2. CASE n # i
      <4>1. inactive.items[n] # t /\ inactive.items[n] \in Task
        BY <2>1, <3>2, ConsistentDistinct, ItemsType DEF TypeOK, Partition
      <4>2. IF n >= i THEN NewlyInactive(inactive.items[n]) ELSE Waits(inactive.items[n])
        BY <2>1 DEF StatusInv
      <4>3. status'[inactive.items[n]] = status[inactive.items[n]]
        BY <2>3, <4>1
      <4> QED
        BY <2>1, <3>2, <4>2, <4>3 DEF NewlyInactive, Waits
    <3> QED
      BY <3>1, <3>2
  <2>5. ASSUME NEW n \in 1 .. Len(active.items) PROVE Ran(active.items[n])'
    <3>1. active.items[n] \in Task /\ active.items[n] # t
      BY <2>1, ItemsType DEF TypeOK, Partition
    <3>2. Ran(active.items[n])
      BY <2>1 DEF StatusInv
    <3> QED
      BY <2>1, <2>3, <3>1, <3>2 DEF Ran
  <2> QED
    BY <2>1, <2>4, <2>5 DEF StatusInv, Rescheduling
<1>15. CASE Rescheduled
  <2>1. /\ pc = "interrupt" /\ pc' = "run" /\ i > Len(inactive.items)
        /\ UNCHANGED <<status, active, inactive>>
    BY <1>15 DEF Rescheduled
  <2>2. ASSUME NEW n \in 1 .. Len(inactive.items) PROVE Waits(inactive.items[n])'
    <3>1. ~(n >= i)
      BY <2>1, ItemsType DEF TypeOK
    <3>2. Waits(inactive.items[n])
      BY <2>1, <3>1 DEF StatusInv, Rescheduling
    <3> QED
      BY <2>1, <3>2 DEF Waits
  <2>3. ASSUME NEW n \in 1 .. Len(active.items) PROVE Ran(active.items[n])'
    <3>1. Ran(active.items[n])
      BY <2>1 DEF StatusInv
    <3> QED
      BY <2>1, <3>1 DEF Ran
  <2> QED
    BY <2>1, <2>2, <2>3 DEF StatusInv, Rescheduling
<1>16. ASSUME NEW t \in Task, RunLast(t) \/ RunLastRestoring(t) PROVE StatusInv'
  <2>1. PICK st, ms : st \in Finished /\ Finish(t, st, ms)
    BY <1>16 DEF RunLast, RunLastRestoring, Finished
  <2>2. /\ Deactivate(t, st) /\ pc = "run" /\ pc' = "run"
        /\ \A u \in Task \ {t} : status'[u] = status[u]
        /\ t \in Items(active)
    BY <1>16, <2>1, ItemsType DEF Finish, RunLast, RunLastRestoring, Running, TypeOK
  <2>3. Items(active') = Items(active) \ {t} /\ inactive' = inactive
    BY <2>1, <2>2, DeactivateSets
  <2>4. \A u \in Task \ {t} : (Ran(u) => Ran(u)') /\ (Waits(u) => Waits(u)')
    BY <2>2 DEF Ran, Waits
  <2>5. t \notin Items(inactive) /\ Items(active) \subseteq Task /\ Items(inactive) \subseteq Task
    BY <2>2, ItemsType DEF TypeOK, Partition
  <2> QED
    BY <2>2, <2>3, <2>4, <2>5, StatusesSettled, StatusesSettledAfter
<1>17. ASSUME pc \in {"idle", "run"}, pc' \in {"idle", "run"},
              UNCHANGED <<status, active, inactive>>
       PROVE  StatusInv'
  <2>1. \A u : Ran(u)' = Ran(u) /\ Waits(u)' = Waits(u)
    BY <1>17 DEF Ran, Waits
  <2> QED
    BY <1>17, <2>1, StatusesSettled, StatusesSettledAfter
<1>18. ASSUME NEW t \in Task, RunOn(t) PROVE StatusInv'
  BY <1>17, <1>18 DEF RunOn, Running
<1>19. CASE IterateDone
  BY <1>17, <1>19 DEF IterateDone
<1>20. CASE UNCHANGED vars
  BY <1>20 DEF StatusInv, NewlyActive, NewlyInactive, Ran, Waits
<1> QED
  BY <1>1, <1>2, <1>3, <1>4, <1>5, <1>6, <1>7, <1>8, <1>9, <1>10, <1>11, <1>12, <1>13,
     <1>14, <1>15, <1>16, <1>18, <1>19, <1>20
     DEF Next, Commands, Iterate, Reschedule, Run

-----------------------------------------------------------------------------
(* What the active tasks hold.                                               *)

LEMMA RemoveKeepsMarks ==
    ASSUME NEW S, NEW x, NEW u, u # x, SetHas(S, u)
    PROVE  SetHas(SetRemove(S, x), u)
BY DEF SetHas, SetRemove

\* Letting go of a task takes nothing from the others.
LEMMA OthersKeep ==
    ASSUME TypeOK, NEW t \in Task, NEW st, Deactivate(t, st), NEW u \in Task \ {t}
    PROVE  /\ SetHas(gray, u) => SetHas(gray', u)
           /\ \A ms : \A m \in Mutex : activeMutexes[m] = u => Released(t, ms)[m] = u
<1>1. SetHas(gray, u) => SetHas(gray', u)
  BY RemoveKeepsMarks DEF Deactivate
<1>2. \A ms : \A m \in Mutex : activeMutexes[m] = u => Released(t, ms)[m] = u
  BY DEF Released
<1> QED
  BY <1>1, <1>2

\* Outside the steal a step keeps HoldInv if each active task keeps its marks and
\* its locks.
LEMMA HoldKept ==
    ASSUME HoldInv, pc # "steal", pc' # "steal",
           \A t \in Items(active') :
             \/ SetHas(gray', t)
             \/ \A m \in mutexes'[t] : activeMutexes'[m] = t
             \/ /\ t \in Items(active)
                /\ SetHas(gray, t) => SetHas(gray', t)
                /\ (\A m \in mutexes[t] : activeMutexes[m] = t)
                      => (\A m \in mutexes'[t] : activeMutexes'[m] = t)
    PROVE  HoldInv'
BY DEF HoldInv

LEMMA HoldStep ==
    /\ TypeOK /\ TypeOK' /\ Partition /\ Partition'
    /\ OwnerInv /\ GrayInv /\ StealInv /\ HoldInv /\ [Next]_vars
    => HoldInv'
<1> SUFFICES ASSUME TypeOK, TypeOK', Partition, Partition', OwnerInv, GrayInv, StealInv,
                    HoldInv, [Next]_vars
             PROVE  HoldInv'
  OBVIOUS
<1> USE DEF vars, objects, books, locals
<1>0. /\ Items(active) \subseteq Task /\ Items(inactive) \subseteq Task
      /\ \A t \in Task : mutexes[t] \subseteq Mutex
  BY ItemsType DEF TypeOK
<1>1. ASSUME NEW t \in Task, Add(t) PROVE HoldInv'
  <2>1. /\ pc = "idle" /\ pc' = "idle" /\ UNCHANGED <<active, gray, activeMutexes>>
        /\ t \notin Items(active)
        /\ \A u \in Task \ {t} : mutexes'[u] = mutexes[u]
    BY <1>1 DEF Add, Managed, TypeOK
  <2> QED
    BY <1>0, <2>1, HoldKept
<1>2. CASE GrayStep
  <2> DEFINE t == gray.items[1]
  <2>1. /\ pc = "gray" /\ pc' = "gray" /\ mutexes' = mutexes
        /\ t \in Task
    BY <1>2 DEF GrayStep, TypeOK, IsSet
  <2> HIDE DEF t
  <2>2. CASE /\ Deactivate(t, status[t])
             /\ activeMutexes' = Released(t, mutexes[t])
    <3>1. Items(active') = Items(active) \ {t}
      BY <2>1, <2>2, DeactivateSets
    <3>2. ASSUME NEW u \in Items(active')
          PROVE  /\ u \in Items(active)
                 /\ SetHas(gray, u) => SetHas(gray', u)
                 /\ \A m \in Mutex : activeMutexes[m] = u => activeMutexes'[m] = u
      BY <1>0, <2>1, <2>2, <3>1, OthersKeep
    <3> QED
      BY <1>0, <2>1, <3>1, <3>2, HoldKept
  <2>3. CASE /\ Conflicts(t) = {}
             /\ activeMutexes' = Granted(t, mutexes[t])
             /\ gray' = ShiftArray(gray) /\ active' = active
    <3>1. \A u : SetHas(gray', u) <=> SetHas(gray, u)
      BY <2>3 DEF ShiftArray, SetHas
    <3>2. \A m \in mutexes[t] : activeMutexes'[m] = t
      BY <1>0, <2>1, <2>3 DEF Granted
    <3>3. ASSUME NEW u \in Items(active), u # t, NEW m \in mutexes[u],
                 activeMutexes[m] = u
          PROVE  activeMutexes'[m] = u
      <4>1. m \in Mutex /\ u # NoTask
        BY <1>0, <3>3, TaskAssumption
      <4>2. m \notin mutexes[t]
        BY <2>3, <3>3, <4>1 DEF Conflicts
      <4> QED
        BY <2>3, <3>3, <4>1, <4>2 DEF Granted
    <3> QED
      BY <2>1, <2>3, <3>1, <3>2, <3>3, HoldKept
  <2> QED
    BY <1>2, <2>2, <2>3 DEF GrayStep, t
<1>3. ASSUME NEW t \in Task, ChooseFree(t) PROVE HoldInv'
  <2>1. /\ pc = "activate" /\ pc' = "activate" /\ UNCHANGED <<mutexes, gray>>
        /\ Items(active') = Items(active) \cup {t}
        /\ Conflicts(t) = {}
        /\ activeMutexes' = Granted(t, mutexes[t])
    BY <1>3, ChosenSets DEF ChooseFree, Considering
  <2>2. \A m \in mutexes[t] : activeMutexes'[m] = t
    BY <1>0, <2>1 DEF Granted
  <2>3. ASSUME NEW u \in Items(active), u # t, NEW m \in mutexes[u],
               activeMutexes[m] = u
        PROVE  activeMutexes'[m] = u
    <3>1. m \in Mutex /\ u # NoTask
      BY <1>0, <2>3, TaskAssumption
    <3>2. m \notin mutexes[t]
      BY <2>1, <2>3, <3>1 DEF Conflicts
    <3> QED
      BY <2>1, <2>3, <3>1, <3>2 DEF Granted
  <2> QED
    BY <2>1, <2>2, <2>3, HoldKept
<1>4. ASSUME NEW t \in Task, ChooseSteal(t) PROVE HoldInv'
  <2>1. /\ pc = "activate" /\ pc' = "steal"
        /\ UNCHANGED <<mutexes, gray, activeMutexes>>
        /\ Items(active') = Items(active) \cup {t}
        /\ thief' = t /\ pending' = mutexes[t]
    BY <1>4, ChosenSets DEF ChooseSteal, Considering
  <2> QED
    BY <2>1 DEF HoldInv
<1>5. ASSUME NEW m \in Mutex, Steal(m) PROVE HoldInv'
  <2>1. /\ pc = "steal" /\ pc' \in {"activate", "steal"} /\ mutexes' = mutexes
        /\ m \in pending /\ pending' = pending \ {m}
        /\ pc' = "steal" => thief' = thief
        /\ pc' # "steal" => pending = {m}
        /\ thief \in Items(active) /\ thief \in Task
    BY <1>0, <1>5 DEF Steal, StealInv
  <2>2. \* Nobody but the owner of m loses a lock, and the owner is not the thief.
        /\ activeMutexes'[m] = thief
        /\ \A u \in Items(active') :
              /\ u \in Items(active)
              /\ u # thief => m \notin mutexes[u] \/ activeMutexes[m] # u
              /\ SetHas(gray, u) => SetHas(gray', u)
              /\ \A n \in Mutex \ {m} : activeMutexes[n] = u => activeMutexes'[n] = u
    <3>1. CASE activeMutexes[m] = NoTask
      <4>1. UNCHANGED <<active, gray>> /\ activeMutexes' = Granted(thief, {m})
        BY <1>5, <3>1 DEF Steal
      <4>2. \A u \in Items(active) : activeMutexes[m] # u
        BY <1>0, <3>1, TaskAssumption
      <4> QED
        BY <4>1, <4>2 DEF Granted
    <3>2. CASE activeMutexes[m] # NoTask
      <4> DEFINE owner == activeMutexes[m]
      <4>1. /\ owner \in Task /\ Deactivate(owner, status[owner])
            /\ activeMutexes' = [Released(owner, mutexes[owner]) EXCEPT ![m] = thief]
        BY <1>5, <3>2 DEF Steal, TypeOK
      <4>2. Items(active') = Items(active) \ {owner}
        BY <4>1, DeactivateSets
      <4> HIDE DEF owner
      <4>3. /\ activeMutexes'[m] = thief
            /\ \A n \in Mutex \ {m} :
                  activeMutexes'[n] = Released(owner, mutexes[owner])[n]
        BY <4>1 DEF Released
      <4>4. ASSUME NEW u \in Items(active')
            PROVE  /\ u \in Items(active) /\ owner # u
                   /\ SetHas(gray, u) => SetHas(gray', u)
                   /\ \A n \in Mutex \ {m} : activeMutexes[n] = u => activeMutexes'[n] = u
        BY <1>0, <4>1, <4>2, <4>3, OthersKeep
      <4> QED
        BY <4>3, <4>4 DEF owner
    <3> QED
      BY <3>1, <3>2
  <2>3. thief \in Items(active')
    <3>1. activeMutexes[m] # thief
      BY <2>1, TaskAssumption DEF StealInv
    <3>2. CASE activeMutexes[m] = NoTask
      BY <1>5, <2>1, <3>2 DEF Steal
    <3>3. CASE activeMutexes[m] # NoTask
      <4>1. activeMutexes[m] \in Task /\ Deactivate(activeMutexes[m], status[activeMutexes[m]])
        BY <1>5, <3>3 DEF Steal, TypeOK
      <4>2. Items(active') = Items(active) \ {activeMutexes[m]}
        BY <4>1, DeactivateSets
      <4> QED
        BY <2>1, <3>1, <4>2
    <3> QED
      BY <3>2, <3>3
  <2>4. \A n \in mutexes[thief] \ (pending \ {m}) : activeMutexes'[n] = thief
    <3>1. ASSUME NEW n \in mutexes[thief], n \notin pending, n # m
          PROVE  activeMutexes'[n] = thief
      <4>1. activeMutexes[n] = thief /\ n \in Mutex
        BY <1>0, <2>1, <3>1 DEF HoldInv
      <4> QED
        BY <2>2, <2>3, <3>1, <4>1
    <3> QED
      BY <2>2, <3>1
  <2>5. ASSUME NEW u \in Items(active'), u # thief
        PROVE  SetHas(gray', u) \/ \A n \in mutexes[u] : activeMutexes'[n] = u
    <3>1. SetHas(gray, u) \/ \A n \in mutexes[u] : activeMutexes[n] = u
      BY <2>2, <2>5 DEF HoldInv
    <3>2. CASE \A n \in mutexes[u] : activeMutexes[n] = u
      <4>1. m \notin mutexes[u] /\ mutexes[u] \subseteq Mutex
        BY <1>0, <2>2, <2>5, <3>2
      <4> QED
        BY <2>2, <3>2, <4>1
    <3> QED
      BY <2>2, <3>1, <3>2
  <2>6. CASE pc' = "steal"
    BY <2>1, <2>4, <2>5, <2>6 DEF HoldInv
  <2>7. CASE pc' # "steal"
    <3>1. \A n \in mutexes[thief] : activeMutexes'[n] = thief
      BY <2>1, <2>4, <2>7
    <3> QED
      BY <2>1, <2>5, <2>7, <3>1 DEF HoldInv
  <2> QED
    BY <2>6, <2>7
<1>6. ASSUME NEW t \in Task, Resume(t) \/ RunOn(t) PROVE HoldInv'
  <2>1. /\ pc # "steal" /\ pc' # "steal" /\ active' = active
    BY <1>6 DEF Resume, RunOn, Resuming, Running
  <2>2. CASE UNCHANGED <<mutexes, gray, activeMutexes>>
    BY <2>1, <2>2, HoldKept
  <2>3. CASE OnMutexesChanged(t) /\ \E ms \in MutexLists[t] : ChangeList(t, ms)
    <3>1. IndexedBy(gray, 0)
      BY <1>6 DEF Resume, RunOn, Resuming, Running, GrayInv
    <3>2. SetHas(gray', t)
      BY <2>3, <3>1, IndexedAddAny DEF OnMutexesChanged, TypeOK
    <3>3. \A u : SetHas(gray, u) => SetHas(gray', u)
      BY <2>3 DEF OnMutexesChanged, SetAdd, SetHas
    <3>4. ASSUME NEW u \in Items(active), u # t
          PROVE  /\ mutexes'[u] = mutexes[u]
                 /\ \A m \in Mutex : activeMutexes[m] = u => activeMutexes'[m] = u
      BY <1>0, <2>3, <3>4 DEF OnMutexesChanged, Released, ChangeList, TypeOK
    <3> QED
      BY <1>0, <2>1, <3>2, <3>3, <3>4, HoldKept
  <2> QED
    BY <1>6, <2>2, <2>3 DEF Resume, RunOn
<1>7. ASSUME NEW t \in Task, RunLast(t) \/ RunLastRestoring(t) PROVE HoldInv'
  <2>1. PICK st, ms : st \in Finished /\ Finish(t, st, ms)
    BY <1>7 DEF RunLast, RunLastRestoring, Finished
  <2>2. /\ Deactivate(t, st) /\ activeMutexes' = Released(t, ms)
        /\ pc = "run" /\ pc' = "run"
        /\ \A u \in Task \ {t} : mutexes'[u] = mutexes[u]
    BY <1>7, <2>1 DEF Finish, RunLast, RunLastRestoring, Running, ChangeList, TypeOK
  <2>3. Items(active') = Items(active) \ {t}
    BY <2>2, DeactivateSets
  <2>4. ASSUME NEW u \in Items(active')
        PROVE  /\ u \in Items(active) /\ mutexes'[u] = mutexes[u]
               /\ SetHas(gray, u) => SetHas(gray', u)
               /\ \A m \in Mutex : activeMutexes[m] = u => activeMutexes'[m] = u
    BY <1>0, <2>2, <2>3, OthersKeep
  <2> QED
    BY <1>0, <2>2, <2>4, HoldKept
<1>8. ASSUME pc # "steal", pc' # "steal", UNCHANGED <<mutexes, active, gray, activeMutexes>>
      PROVE  HoldInv'
  BY <1>8, HoldKept
<1>9. CASE \/ Begin \/ GrayDone \/ ActivateDone \/ ResumeDone \/ Rescheduled \/ IterateDone
           \/ \E t \in Task : Stop(t) \/ ThrowAway(t) \/ Pass(t) \/ ResumeOld(t) \/ Interrupt(t)
           \/ \E S \in SUBSET Managed : StopAll(S)
  BY <1>8, <1>9 DEF Begin, GrayDone, ActivateDone, ResumeDone, Rescheduled, IterateDone,
     Stop, ThrowAway, Pass, ResumeOld, Interrupt, StopAll, Considering, Resuming,
     Interrupting
<1>10. CASE UNCHANGED vars
  BY <1>10 DEF HoldInv
<1> QED
  BY <1>1, <1>2, <1>3, <1>4, <1>5, <1>6, <1>7, <1>9, <1>10
     DEF Next, Commands, Iterate, Reschedule, Run

-----------------------------------------------------------------------------
(* Every active task runs once.                                              *)

LEMMA NoneRanStep == NoneRan /\ [Next]_vars => NoneRan'
<1> SUFFICES ASSUME NoneRan, [Next]_vars PROVE NoneRan'
  OBVIOUS
<1> USE DEF vars, objects, books, locals, NoneRan, Rescheduling
<1>1. CASE Commands
  BY <1>1 DEF Commands, Add, Stop, StopAll
<1>2. CASE Begin \/ Run
  BY <1>2 DEF Begin, Run, RunOn, RunLast, RunLastRestoring, Finish, IterateDone, Running
<1>3. CASE Reschedule
  BY <1>3 DEF Reschedule, GrayStep, GrayDone, ThrowAway, ChooseFree, ChooseSteal, Pass,
     Steal, ActivateDone, Resume, ResumeOld, Interrupt, ResumeDone, Rescheduled,
     Considering, Resuming, Interrupting
<1>4. CASE UNCHANGED vars
  BY <1>4
<1> QED
  BY <1>1, <1>2, <1>3, <1>4 DEF Next, Iterate

LEMMA EachRunsOnceStep ==
    TypeOK /\ Partition /\ NoneRan /\ EachRunsOnce /\ [Next]_vars => EachRunsOnce'
<1> SUFFICES ASSUME TypeOK, Partition, NoneRan, EachRunsOnce, [Next]_vars, pc' = "run"
             PROVE  EachRunsOnce'
  BY DEF EachRunsOnce
<1> USE DEF vars, objects, books, locals
<1> DEFINE L == Len(active.items)
<1>0. L \in Nat /\ i \in Nat
  BY ItemsType DEF TypeOK
<1>1. CASE Begin \/ Rescheduled
  <2>1. i' = 1 /\ ran' = {}
    BY <1>1 DEF Begin, Rescheduled, NoneRan, Rescheduling
  <2> QED
    BY <1>0, <1>1, <2>1 DEF EachRunsOnce, Begin, Rescheduled
<1>2. ASSUME NEW t \in Task, RunOn(t) PROVE EachRunsOnce'
  <2>1. /\ pc = "run" /\ i \in 1 .. L /\ t = active.items[i]
        /\ active' = active /\ i' = i + 1 /\ ran' = ran \cup {t}
    BY <1>0, <1>2 DEF RunOn, Running, TypeOK
  <2>2. ASSUME NEW n \in 1 .. L PROVE active.items[n] \in ran' <=> n < i + 1
    <3>1. active.items[n] \in ran <=> n < i
      BY <2>1 DEF EachRunsOnce
    <3>2. n # i => active.items[n] # t
      BY <2>1, ConsistentDistinct DEF TypeOK, Partition
    <3> QED
      BY <1>0, <2>1, <3>1, <3>2
  <2> QED
    BY <2>1, <2>2 DEF EachRunsOnce
<1>3. ASSUME NEW t \in Task, RunLast(t) \/ RunLastRestoring(t) PROVE EachRunsOnce'
  <2>1. PICK st, ms : st \in Finished /\ Finish(t, st, ms)
    BY <1>3 DEF RunLast, RunLastRestoring, Finished
  <2>2. /\ pc = "run" /\ i \in 1 .. L /\ t = active.items[i] /\ i' = i
        /\ ran' = ran \/ ran' = ran \cup {t}
    BY <1>0, <1>3, <2>1 DEF Finish, RunLast, RunLastRestoring, Running, TypeOK
  <2>3. active' = SetRemove(active, active.items[i])
    BY <2>1, <2>2 DEF Finish, Deactivate
  <2>4. /\ Len(active'.items) = L - 1
        /\ \A n \in 1 .. L - 1 :
              /\ n < i => active'.items[n] = active.items[n]
              /\ n >= i => active'.items[n] = active.items[n + 1]
    <3>1. IsSet(active, Task) /\ Consistent(active)
      BY DEF TypeOK, Partition
    <3> QED
      BY <2>2, <2>3, <3>1, RemoveAtPosition
  <2>5. ASSUME NEW n \in 1 .. L, n # i PROVE active.items[n] \in ran' <=> n < i
    <3>1. active.items[n] \in ran <=> n < i
      BY <2>2 DEF EachRunsOnce
    <3>2. active.items[n] # t
      BY <2>2, <2>5, ConsistentDistinct DEF TypeOK, Partition
    <3> QED
      BY <2>2, <3>1, <3>2
  <2>6. ASSUME NEW n \in 1 .. L - 1 PROVE active'.items[n] \in ran' <=> n < i
    <3>1. CASE n < i
      BY <1>0, <2>2, <2>4, <2>5, <3>1
    <3>2. CASE n >= i
      <4>1. n + 1 \in 1 .. L /\ n + 1 # i /\ ~(n + 1 < i) /\ ~(n < i)
        BY <1>0, <3>2
      <4>2. active.items[n + 1] \notin ran'
        BY <2>5, <4>1
      <4> QED
        BY <2>4, <3>2, <4>1, <4>2
    <3> QED
      BY <1>0, <3>1, <3>2
  <2> QED
    BY <2>2, <2>4, <2>6 DEF EachRunsOnce
<1>4. CASE UNCHANGED vars
  BY <1>4 DEF EachRunsOnce
<1>5. CASE Commands \/ IterateDone
  BY <1>5 DEF Commands, Add, Stop, StopAll, IterateDone
<1>6. CASE Reschedule /\ ~Rescheduled
  BY <1>6 DEF Reschedule, GrayStep, GrayDone, ThrowAway, ChooseFree, ChooseSteal, Pass,
     Steal, ActivateDone, Resume, ResumeOld, Interrupt, ResumeDone,
     Considering, Resuming, Interrupting
<1> QED
  BY <1>1, <1>2, <1>3, <1>4, <1>5, <1>6 DEF Next, Iterate, Run

-----------------------------------------------------------------------------
(* The theorems.                                                             *)

LEMMA InitInductive == Init => Inductive
<1> SUFFICES ASSUME Init PROVE Inductive
  OBVIOUS
<1> USE DEF Init
<1>1. active.items = <<>> /\ inactive.items = <<>> /\ gray.items = <<>> /\ DOMAIN gray.keys = {}
  BY DEF EmptySet
<1>2. Items(active) = {} /\ Items(inactive) = {} /\ Items(gray) = {}
  BY <1>1 DEF Items
<1>3. Partition
  BY <1>2, EmptyConsistent DEF Partition
<1>4. OwnerInv
  BY DEF OwnerInv
<1>5. GrayInv
  BY <1>1, <1>2 DEF GrayInv, GrayActive, IndexedBy
<1>6. StatusInv
  BY <1>1 DEF StatusInv, Rescheduling
<1>7. StealInv /\ NoneRan /\ EachRunsOnce
  BY DEF StealInv, NoneRan, Rescheduling, EachRunsOnce
<1>8. HoldInv
  BY <1>2 DEF HoldInv
<1> QED
  BY <1>3, <1>4, <1>5, <1>6, <1>7, <1>8 DEF Inductive

LEMMA NextInductive == TypeOK /\ Inductive /\ [Next]_vars => Inductive'
<1> SUFFICES ASSUME TypeOK, Inductive, [Next]_vars PROVE Inductive'
  OBVIOUS
<1>1. TypeOK'
  BY NextType
<1>2. Partition'
  BY PartitionStep DEF Inductive
<1>3. StealInv' /\ NoneRan'
  BY StealStep, NoneRanStep DEF Inductive
<1>4. OwnerInv' /\ GrayInv'
  BY <1>1, <1>2, OwnerStep, GrayInvStep DEF Inductive
<1>5. StatusInv' /\ HoldInv' /\ EachRunsOnce'
  BY <1>1, <1>2, StatusStep, HoldStep, EachRunsOnceStep DEF Inductive
<1> QED
  BY <1>2, <1>3, <1>4, <1>5 DEF Inductive

\* The invariant holds in every reachable state: at each point of iterate().
THEOREM InductiveHolds == Spec => [](TypeOK /\ Inductive)
<1>1. Init => TypeOK /\ Inductive
  BY InitType, InitInductive
<1>2. TypeOK /\ Inductive /\ [Next]_vars => (TypeOK /\ Inductive)'
  BY NextType, NextInductive
<1> QED
  BY <1>1, <1>2, PTL DEF Spec

\* The two sets of tasks keep their array and their hash in step, and share no
\* task, even inside reschedule()'s loops.
THEOREM PartitionHolds == Spec => []Partition
<1>1. TypeOK /\ Inductive => Partition
  BY DEF Inductive
<1> QED
  BY <1>1, InductiveHolds, PTL

\* checkValidity, line 247: a task that waits holds no lock.
THEOREM WaitingHoldNothingHolds == Spec => []WaitingHoldNothing
<1>1. TypeOK /\ Inductive => WaitingHoldNothing
  <2> SUFFICES ASSUME TypeOK, Inductive, NEW m \in Mutex,
                      activeMutexes[m] \in Items(inactive)
               PROVE  FALSE
    BY DEF WaitingHoldNothing
  <2>1. activeMutexes[m] # NoTask
    BY ItemsType, TaskAssumption DEF TypeOK
  <2>2. activeMutexes[m] \in Items(active) \/ activeMutexes[m] \notin Managed
    BY <2>1 DEF Inductive, OwnerInv
  <2> QED
    BY <2>2 DEF Inductive, Partition, Managed
<1> QED
  BY <1>1, InductiveHolds, PTL

\* Task.pm's assertions: activate, resume, interrupt and iterate are only ever
\* called on a task with the status they expect.
THEOREM CallsInStatusHolds == Spec => []CallsInStatus
<1>1. TypeOK /\ Inductive => CallsInStatus
  <2> SUFFICES ASSUME TypeOK, Inductive, NEW t \in Task
               PROVE  /\ (Resuming(t) /\ ~SetHas(oldActive, t)) =>
                            status[t] \in {"INACTIVE", "INTERRUPTED"}
                      /\ (Interrupting(t) /\ ~SetHas(oldInactive, t)) =>
                            status[t] = "RUNNING"
                      /\ Running(t) => status[t] \in {"RUNNING", "STOPPED"}
    BY DEF CallsInStatus
  <2>1. StatusInv /\ i \in Nat \ {0}
    BY DEF Inductive, TypeOK
  <2>2. /\ Len(active.items) \in Nat /\ Len(inactive.items) \in Nat
    BY ItemsType DEF TypeOK
  <2>3. ASSUME Resuming(t), ~SetHas(oldActive, t)
        PROVE  status[t] \in {"INACTIVE", "INTERRUPTED"}
    <3>1. NewlyActive(active.items[i])
      BY <2>1, <2>2, <2>3 DEF Resuming, StatusInv
    <3> QED
      BY <2>3, <3>1 DEF Resuming, NewlyActive
  <2>4. ASSUME Interrupting(t), ~SetHas(oldInactive, t) PROVE status[t] = "RUNNING"
    <3>1. NewlyInactive(inactive.items[i])
      BY <2>1, <2>2, <2>4 DEF Interrupting, StatusInv
    <3> QED
      BY <2>4, <3>1 DEF Interrupting, NewlyInactive
  <2>5. ASSUME Running(t) PROVE status[t] \in {"RUNNING", "STOPPED"}
    <3>1. Ran(active.items[i])
      BY <2>1, <2>2, <2>5 DEF Running, StatusInv
    <3> QED
      BY <2>5, <3>1 DEF Running, Ran
  <2> QED
    BY <2>3, <2>4, <2>5
<1> QED
  BY <1>1, InductiveHolds, PTL

\* checkValidity, lines 234 and 244: the members of the sets have their status.
THEOREM MembersStatusHolds == Spec => []MembersStatus
<1>1. TypeOK /\ Inductive => MembersStatus
  BY StatusesSettled DEF Inductive, MembersStatus, Checked, Ran, Waits
<1> QED
  BY <1>1, InductiveHolds, PTL

\* iterate() runs every active task exactly once, whichever tasks finish.
THEOREM EachRunsOnceHolds == Spec => []EachRunsOnce
<1>1. TypeOK /\ Inductive => EachRunsOnce
  BY DEF Inductive
<1> QED
  BY <1>1, InductiveHolds, PTL

\* Only a thief of strictly higher priority, or a change of its own list, takes a
\* task out of the active set and back among the waiting.
THEOREM SuspendedByHigherHolds == Spec => SuspendedByHigher
<1>1. TypeOK /\ Inductive /\ [Next]_vars => GiveWay
  <2> SUFFICES ASSUME TypeOK, Inductive, [Next]_vars, NEW u \in Task,
                      u \in Items(active), u \in Items(inactive)', pc # "gray"
               PROVE  pc = "steal" /\ Priority[thief] > Priority[u]
    BY DEF GiveWay
  <2>1. Partition /\ StealInv /\ u \notin Items(inactive)
    BY DEF Inductive, Partition
  <2>2. ASSUME NEW t \in Task, Add(t) PROVE FALSE
    BY <2>1, <2>2, AddConsistent DEF Add, TypeOK, Partition, Managed
  <2>3. ASSUME NEW t \in Task, ThrowAway(t) PROVE FALSE
    BY <2>1, <2>3, RemoveConsistent DEF ThrowAway, TypeOK, Partition
  <2>4. ASSUME NEW t \in Task, ChooseFree(t) \/ ChooseSteal(t) PROVE FALSE
    BY <2>1, <2>4, ChosenSets DEF ChooseFree, ChooseSteal
  <2>5. ASSUME NEW t \in Task, RunLast(t) \/ RunLastRestoring(t) PROVE FALSE
    <3>1. PICK st \in Finished : Deactivate(t, st)
      BY <2>5 DEF RunLast, RunLastRestoring, Finish, Finished
    <3> QED
      BY <2>1, <3>1, DeactivateSets
  <2>6. ASSUME NEW m \in Mutex, Steal(m)
        PROVE  pc = "steal" /\ Priority[thief] > Priority[u]
    <3>1. pc = "steal" /\ m \in pending
      BY <2>6 DEF Steal
    <3>2. activeMutexes[m] # NoTask
      BY <2>1, <2>6 DEF Steal
    <3>3. activeMutexes[m] \in Task /\ Deactivate(activeMutexes[m], status[activeMutexes[m]])
      BY <2>6, <3>2 DEF Steal, TypeOK
    <3>4. u = activeMutexes[m]
      BY <2>1, <3>3, DeactivateSets
    <3> QED
      BY <2>1, <3>1, <3>2, <3>4 DEF StealInv
  <2>7. CASE UNCHANGED <<active, inactive>>
    BY <2>1, <2>7
  <2> QED
    BY SetSteps, <2>2, <2>3, <2>4, <2>5, <2>6, <2>7 DEF GrayStep
<1>2. TypeOK /\ Inductive /\ [Next]_vars => [GiveWay]_vars
  BY <1>1
<1> QED
  BY <1>2, InductiveHolds, PTL DEF Spec, SuspendedByHigher

LEMMA OwnersActiveStep ==
    /\ "afterStop" \notin ChangePoints
    /\ TypeOK /\ Inductive /\ OwnersActive /\ [Next]_vars
    => OwnersActive'
<1> SUFFICES ASSUME "afterStop" \notin ChangePoints, TypeOK, Inductive, OwnersActive,
                    [Next]_vars
             PROVE  OwnersActive'
  OBVIOUS
<1> USE DEF vars, objects, books, locals
<1>0. /\ TypeOK' /\ Partition /\ GrayInv /\ StealInv
      /\ \A m \in Mutex : activeMutexes[m] # NoTask => m \in mutexes[activeMutexes[m]]
  <2>1. TypeOK' /\ Partition /\ GrayInv /\ StealInv /\ OwnerInv
    BY NextType DEF Inductive
  <2> QED
    BY <2>1 DEF OwnersActive, OwnerInv, Managed
<1>1. ASSUME NEW t \in Task, NEW st, Deactivate(t, st)
      PROVE  \A m \in Mutex : Released(t, mutexes[t])[m] \in Items(active') \cup {NoTask}
  <2>1. Items(active') = Items(active) \ {t}
    BY <1>0, <1>1, DeactivateSets
  <2>2. ASSUME NEW m \in Mutex
        PROVE  Released(t, mutexes[t])[m] \in Items(active') \cup {NoTask}
    <3>1. activeMutexes[m] = t => m \in mutexes[t]
      BY <1>0, TaskAssumption
    <3> QED
      BY <2>1, <3>1 DEF OwnersActive, Released
  <2> QED
    BY <2>2
<1>2. CASE GrayStep
  <2> DEFINE t == gray.items[1]
  <2>1. t \in Task /\ pc = "gray" /\ gray.items # <<>>
    BY <1>2 DEF GrayStep, TypeOK, IsSet
  <2>2. CASE Deactivate(t, status[t]) /\ activeMutexes' = Released(t, mutexes[t])
    <3> HIDE DEF t
    <3> QED
      BY <1>1, <2>1, <2>2 DEF OwnersActive
  <2>3. CASE /\ Conflicts(t) = {}
             /\ activeMutexes' = Granted(t, mutexes[t]) /\ active' = active
    <3>1. t \in Items(gray) /\ ~Stuck
      BY <2>1, <2>3, FirstItem DEF TypeOK, Stuck
    <3>2. t \in Items(active)
      BY <1>0, <2>1, <3>1 DEF GrayInv, GrayActive
    <3> HIDE DEF t
    <3> QED
      BY <2>3, <3>2 DEF OwnersActive, Granted
  <2> QED
    BY <1>2, <2>2, <2>3 DEF GrayStep
<1>3. ASSUME NEW t \in Task, ChooseFree(t) PROVE OwnersActive'
  <2>1. Items(active') = Items(active) \cup {t} /\ activeMutexes' = Granted(t, mutexes[t])
    BY <1>0, <1>3, ChosenSets DEF ChooseFree
  <2> QED
    BY <2>1 DEF OwnersActive, Granted
<1>4. ASSUME NEW t \in Task, ChooseSteal(t) PROVE OwnersActive'
  <2>1. Items(active') = Items(active) \cup {t} /\ activeMutexes' = activeMutexes
    BY <1>0, <1>4, ChosenSets DEF ChooseSteal
  <2> QED
    BY <2>1 DEF OwnersActive
<1>5. ASSUME NEW m \in Mutex, Steal(m) PROVE OwnersActive'
  <2>1. thief \in Items(active)
    BY <1>0, <1>5 DEF Steal, StealInv
  <2>2. CASE activeMutexes[m] = NoTask
    <3>1. active' = active /\ activeMutexes' = Granted(thief, {m})
      BY <1>5, <2>2 DEF Steal
    <3> QED
      BY <2>1, <3>1 DEF OwnersActive, Granted
  <2>3. CASE activeMutexes[m] # NoTask
    <3> DEFINE owner == activeMutexes[m]
    <3>1. /\ owner \in Task /\ owner # thief /\ Deactivate(owner, status[owner])
          /\ activeMutexes' = [Released(owner, mutexes[owner]) EXCEPT ![m] = thief]
      BY <1>0, <1>5, <2>3 DEF Steal, StealInv, TypeOK
    <3> HIDE DEF owner
    <3>2. \A n \in Mutex : Released(owner, mutexes[owner])[n] \in Items(active') \cup {NoTask}
      BY <1>1, <3>1
    <3>3. thief \in Items(active')
      BY <1>0, <2>1, <3>1, DeactivateSets
    <3> QED
      BY <3>1, <3>2, <3>3 DEF OwnersActive, Released
  <2> QED
    BY <2>2, <2>3
<1>6. ASSUME NEW t \in Task, Resume(t) \/ RunOn(t) PROVE OwnersActive'
  <2>1. active' = active
    BY <1>6 DEF Resume, RunOn
  <2>2. \A m \in Mutex : activeMutexes'[m] \in {NoTask, activeMutexes[m]}
    BY <1>6, ChangedOwners DEF Resume, RunOn
  <2> QED
    BY <2>1, <2>2 DEF OwnersActive
<1>7. ASSUME NEW t \in Task, RunLast(t) PROVE OwnersActive'
  <2>1. PICK st : Deactivate(t, st) /\ activeMutexes' = Released(t, mutexes[t])
    BY <1>7 DEF RunLast, Finish
  <2> QED
    BY <1>1, <2>1 DEF OwnersActive
<1>8. ASSUME UNCHANGED <<active, activeMutexes>> PROVE OwnersActive'
  BY <1>8 DEF OwnersActive
<1>9. CASE \/ Begin \/ GrayDone \/ ActivateDone \/ ResumeDone \/ Rescheduled \/ IterateDone
           \/ \E t \in Task : \/ Add(t) \/ Stop(t) \/ ThrowAway(t) \/ Pass(t)
                              \/ ResumeOld(t) \/ Interrupt(t)
           \/ \E S \in SUBSET Managed : StopAll(S)
           \/ UNCHANGED vars
  BY <1>8, <1>9 DEF Begin, GrayDone, ActivateDone, ResumeDone, Rescheduled, IterateDone,
     Add, Stop, ThrowAway, Pass, ResumeOld, Interrupt, StopAll
<1> QED
  BY <1>2, <1>3, <1>4, <1>5, <1>6, <1>7, <1>9
     DEF Next, Commands, Iterate, Reschedule, Run, RunLastRestoring

\* checkValidity's assertions on the locks hold as long as no task changes its list
\* once it has stopped: the exception is Task::WithSubtask's.
THEOREM LocksHold ==
    ASSUME "afterStop" \notin ChangePoints
    PROVE  Spec => []Locks
<1>1. Init => TypeOK /\ Inductive /\ OwnersActive
  BY InitType, InitInductive DEF Init, OwnersActive
<1>2. TypeOK /\ Inductive /\ OwnersActive /\ [Next]_vars
      => (TypeOK /\ Inductive /\ OwnersActive)'
  BY NextType, NextInductive, OwnersActiveStep
<1>3. Inductive /\ OwnersActive => Locks
  BY DEF Inductive, OwnersActive, HoldInv, Locks, Checked
<1> QED
  BY <1>1, <1>2, <1>3, PTL DEF Spec

\* The hang, for any tasks: once the first gray task conflicts and has left the gray
\* set's hash, the first loop of reschedule() repeats one step for ever (lines
\* 130-155), whatever the others do.
THEOREM StuckForEver ==
    Spec => [][pc = "gray" /\ Stuck => (pc = "gray" /\ Stuck)']_vars
<1> DEFINE A == pc = "gray" /\ Stuck => (pc = "gray" /\ Stuck)'
<1>1. TypeOK /\ Inductive /\ [Next]_vars => [A]_vars
  <2> SUFFICES ASSUME TypeOK, Inductive, [Next]_vars, vars' # vars, pc = "gray", Stuck
               PROVE  (pc = "gray" /\ Stuck)'
    OBVIOUS
  <2>1. GrayStep
    <3>1. gray.items # <<>>
      BY DEF Stuck
    <3> QED
      BY <3>1 DEF Next, Commands, Add, Stop, StopAll, Iterate, Begin, Reschedule, GrayDone,
         ThrowAway, ChooseFree, ChooseSteal, Pass, Considering, Steal, ActivateDone,
         Resume, ResumeOld, Resuming, Interrupt, Interrupting, ResumeDone, Rescheduled,
         Run, RunOn, RunLast, RunLastRestoring, Running, IterateDone
  <2> QED
    BY <2>1, StuckStays DEF Inductive, GrayStep
<1> QED
  BY <1>1, InductiveHolds, PTL DEF Spec

\* There is no other way for that loop to hang: as long as it is not stuck, each of
\* its steps has one gray task less before it.
THEOREM FirstLoopAdvances ==
    Spec => [][GrayStep => Stuck' \/ Len(gray'.items) < Len(gray.items)]_vars
<1>1. TypeOK /\ Inductive /\ [Next]_vars
      => (GrayStep => Stuck' \/ Len(gray'.items) < Len(gray.items))
  BY NextType, GrayShrinks DEF Inductive
<1>2. TypeOK /\ Inductive /\ [Next]_vars
      => [GrayStep => Stuck' \/ Len(gray'.items) < Len(gray.items)]_vars
  BY <1>1
<1> QED
  BY <1>2, InductiveHolds, PTL DEF Spec

-----------------------------------------------------------------------------
(* Changes of a mutex list.                                                  *)

LEMMA RequestStep ==
    /\ "activate" \notin ChangePoints
    /\ TypeOK /\ GrayInv /\ RequestInv /\ [Next]_vars
    => RequestInv'
<1> SUFFICES ASSUME "activate" \notin ChangePoints, TypeOK, GrayInv, RequestInv,
                    [Next]_vars
             PROVE  RequestInv'
  OBVIOUS
<1> USE DEF vars, objects, books, locals
<1>1. CASE Commands
  BY <1>1 DEF Commands, Add, Stop, OnStop, StopAll, RequestInv
<1>2. CASE Begin
  BY <1>2 DEF Begin, RequestInv
<1>3. CASE \/ GrayStep \/ GrayDone \/ \E m \in Mutex : Steal(m)
           \/ \E t \in Task : ThrowAway(t) \/ ChooseFree(t) \/ ChooseSteal(t) \/ Pass(t)
  <2>1. pc' \in {"gray", "activate", "steal"}
    BY <1>3 DEF GrayStep, GrayDone, Steal, ThrowAway, ChooseFree, ChooseSteal, Pass,
       Considering
  <2> QED
    BY <2>1 DEF RequestInv
<1>4. CASE ActivateDone
  BY <1>4 DEF ActivateDone, GrayInv, RequestInv
<1>5. CASE \/ ResumeDone
           \/ \E t \in Task : Resume(t) \/ ResumeOld(t) \/ Interrupt(t)
  <2>1. gray' = gray /\ pc \in {"resume", "interrupt"} /\ pc' \in {"resume", "interrupt"}
    BY <1>5 DEF Resume, ResumeOld, ResumeDone, Interrupt, Resuming, Interrupting
  <2> QED
    BY <2>1 DEF RequestInv
<1>6. CASE Rescheduled
  BY <1>6 DEF Rescheduled, RequestInv
<1>7. CASE \E t \in Task : RunLast(t) \/ RunLastRestoring(t)
  <2>1. shouldReschedule' = TRUE /\ pc' = "run"
    BY <1>7 DEF RunLast, RunLastRestoring, Finish, Running
  <2> QED
    BY <2>1 DEF RequestInv
<1>8. CASE IterateDone \/ \E t \in Task : RunOn(t)
  <2>1. /\ pc = "run" /\ pc' \in {"run", "idle"}
        /\ \/ shouldReschedule' = TRUE
           \/ UNCHANGED <<gray, shouldReschedule>>
    BY <1>8 DEF IterateDone, RunOn, Running, OnMutexesChanged
  <2> QED
    BY <2>1 DEF RequestInv
<1>9. CASE UNCHANGED vars
  BY <1>9 DEF RequestInv
<1> QED
  BY <1>1, <1>2, <1>3, <1>4, <1>5, <1>6, <1>7, <1>8, <1>9
     DEF Next, Iterate, Reschedule, Run

\* The next iterate() deals with every task that is marked, however often tasks
\* change their lists, if none does as it starts: reschedule() clears
\* shouldReschedule after it has called activate (TaskManager.pm, lines 200-219).
THEOREM MarkedAreRescheduledHolds ==
    ASSUME "activate" \notin ChangePoints
    PROVE  Spec => []MarkedAreRescheduled
<1>1. Init => TypeOK /\ Inductive /\ RequestInv
  BY InitType, InitInductive DEF Init, EmptySet, RequestInv
<1>2. TypeOK /\ Inductive /\ RequestInv /\ [Next]_vars
      => (TypeOK /\ Inductive /\ RequestInv)'
  BY NextType, NextInductive, RequestStep DEF Inductive
<1>3. RequestInv => MarkedAreRescheduled
  BY DEF RequestInv, MarkedAreRescheduled
<1> QED
  BY <1>1, <1>2, <1>3, PTL DEF Spec

\* The only member of a set, taken out: also when the array has lost it already.
LEMMA RemoveOnly ==
    ASSUME NEW E, NEW S, IsSet(S, E), NEW x, DOMAIN S.keys = {x}, S.keys[x] = 0,
           S.items = <<x>> \/ S.items = <<>>
    PROVE  SetRemove(S, x).items = <<>> /\ DOMAIN SetRemove(S, x).keys = {}
<1> DEFINE R == SetRemove(S, x)
<1>1. IndexedBy(S, 0) /\ SetHas(S, x)
  BY DEF IndexedBy, SetHas
<1>2. IndexedBy(R, 0) /\ DOMAIN R.keys = {}
  <2>1. IndexedBy(R, 0) /\ DOMAIN R.keys = DOMAIN S.keys \ {x}
    BY <1>1, IndexedRemove
  <2> QED
    BY <2>1
<1>3. R.items \in Seq(E)
  BY RemoveIsSet DEF IsSet
<1>4. Len(R.items) = 0
  <2> HIDE DEF R
  <2>1. \A n \in 1 .. Len(R.items) : R.items[n] \in DOMAIN R.keys
    BY <1>2 DEF IndexedBy
  <2>2. 1 \notin 1 .. Len(R.items) /\ Len(R.items) \in Nat
    BY <1>2, <1>3, <2>1
  <2> QED
    BY <2>2
<1> QED
  BY <1>2, <1>3, <1>4

\* Letting go of a task clears its mark, or leaves the gray set alone.
LEMMA OneChangeLetGo ==
    ASSUME TypeOK, OneChange, changes <= 1, NEW t \in Task, NEW st, Deactivate(t, st)
    PROVE  \/ gray'.items = <<>> /\ DOMAIN gray'.keys = {}
           \/ gray' = gray /\ ~SetHas(gray, t)
<1>1. gray' = SetRemove(gray, t) /\ IsSet(gray, Task)
  BY DEF Deactivate, TypeOK
<1>2. CASE ~SetHas(gray, t)
  BY <1>1, <1>2 DEF SetRemove
<1>3. CASE SetHas(gray, t)
  <2>1. /\ DOMAIN gray.keys = {t} /\ gray.keys[t] = 0
        /\ gray.items = <<t>> \/ gray.items = <<>>
    BY <1>3 DEF OneChange, SetHas
  <2> QED
    BY <1>1, <2>1, RemoveOnly
<1> QED
  BY <1>2, <1>3

\* A step that does not touch the gray set keeps OneChange if a marked task stays
\* active, does not become the thief and keeps its list and its locks.
LEMMA OneChangeKept ==
    ASSUME OneChange, changes \in Nat, changes' \in {changes, changes + 1}, gray' = gray,
           \A t \in Items(active) : SetHas(gray, t) =>
             /\ t \in Items(active') /\ mutexes'[t] = mutexes[t]
             /\ pc' = "steal" => thief' # t
             /\ \A m \in mutexes[t] : activeMutexes[m] = t => activeMutexes'[m] = t
    PROVE  OneChange'
<1> SUFFICES ASSUME changes' <= 1 PROVE OneChange'
  BY DEF OneChange
<1>1. CASE gray.items = <<>> /\ DOMAIN gray.keys = {}
  BY <1>1 DEF OneChange
<1>2. CASE \E t \in Items(active) :
             /\ changes = 1 /\ DOMAIN gray.keys = {t} /\ gray.keys[t] = 0
             /\ \/ gray.items = <<t>>
                \/ gray.items = <<>> /\ \A m \in mutexes[t] : activeMutexes[m] = t
  <2>1. PICK t \in Items(active) :
             /\ changes = 1 /\ DOMAIN gray.keys = {t} /\ gray.keys[t] = 0
             /\ \/ gray.items = <<t>>
                \/ gray.items = <<>> /\ \A m \in mutexes[t] : activeMutexes[m] = t
    BY <1>2
  <2>2. SetHas(gray, t) /\ changes' = 1
    BY <2>1 DEF SetHas
  <2> QED
    BY <2>1, <2>2 DEF OneChange
<1> QED
  BY <1>1, <1>2 DEF OneChange

LEMMA OneChangeStep ==
    TypeOK /\ Partition /\ StealInv /\ OneChange /\ [Next]_vars => OneChange'
<1> SUFFICES ASSUME TypeOK, Partition, StealInv, OneChange, [Next]_vars, changes' <= 1
             PROVE  OneChange'
  BY DEF OneChange
<1> USE DEF vars, objects, books, locals
<1>0. /\ Items(active) \subseteq Task /\ changes \in Nat /\ NoTask \notin Task
      /\ \A t \in Task : mutexes[t] \subseteq Mutex
  BY ItemsType, TaskAssumption DEF TypeOK
<1>1. ASSUME NEW t \in Task, Add(t) PROVE OneChange'
  <2>1. /\ pc' = "idle" /\ UNCHANGED <<active, gray, activeMutexes, changes>>
        /\ t \notin Items(active)
        /\ \A u \in Task \ {t} : mutexes'[u] = mutexes[u]
    BY <1>1 DEF Add, Managed, TypeOK
  <2> QED
    BY <1>0, <2>1, OneChangeKept
<1>2. CASE GrayStep
  <2> DEFINE t == gray.items[1]
  <2>1. /\ pc = "gray" /\ pc' = "gray" /\ gray.items # <<>> /\ UNCHANGED <<mutexes, changes>>
    BY <1>2 DEF GrayStep
  <2>2. /\ t \in Items(active) /\ changes = 1 /\ DOMAIN gray.keys = {t}
        /\ gray.keys[t] = 0 /\ gray.items = <<t>>
    BY <2>1 DEF OneChange
  <2> HIDE DEF t
  <2>3. CASE Deactivate(t, status[t])
    <3>1. gray' = SetRemove(gray, t)
      BY <2>3 DEF Deactivate
    <3> QED
      BY <2>2, <3>1, RemoveOnly DEF OneChange, TypeOK
  <2>4. CASE /\ activeMutexes' = Granted(t, mutexes[t])
             /\ gray' = ShiftArray(gray) /\ active' = active
    <3>1. gray'.items = <<>> /\ gray'.keys = gray.keys
      BY <2>2, <2>4 DEF ShiftArray
    <3>2. \A m \in mutexes'[t] : activeMutexes'[m] = t
      BY <1>0, <2>1, <2>2, <2>4 DEF Granted
    <3> QED
      BY <2>1, <2>2, <2>4, <3>1, <3>2 DEF OneChange
  <2> QED
    BY <1>2, <2>3, <2>4 DEF GrayStep, t
<1>3. ASSUME NEW t \in Task, ChooseFree(t) PROVE OneChange'
  <2>1. /\ pc' = "activate" /\ UNCHANGED <<mutexes, gray, changes>>
        /\ Items(active') = Items(active) \cup {t}
        /\ Conflicts(t) = {} /\ activeMutexes' = Granted(t, mutexes[t])
    BY <1>3, ChosenSets DEF ChooseFree, Considering
  <2>2. ASSUME NEW u \in Items(active), NEW m \in mutexes[u], activeMutexes[m] = u
        PROVE  activeMutexes'[m] = u
    <3>1. m \in Mutex /\ m \notin mutexes[t]
      BY <1>0, <2>1, <2>2 DEF Conflicts
    <3> QED
      BY <2>1, <2>2, <3>1 DEF Granted
  <2> QED
    BY <1>0, <2>1, <2>2, OneChangeKept
<1>4. ASSUME NEW t \in Task, ChooseSteal(t) PROVE OneChange'
  <2>1. /\ UNCHANGED <<mutexes, gray, activeMutexes, changes>>
        /\ Items(active') = Items(active) \cup {t} /\ t \notin Items(active)
        /\ thief' = t
    BY <1>4, ChosenSets DEF ChooseSteal
  <2> QED
    BY <1>0, <2>1, OneChangeKept
<1>5. ASSUME NEW m \in Mutex, Steal(m) PROVE OneChange'
  <2>1. /\ pc = "steal" /\ UNCHANGED <<mutexes, changes>>
        /\ pc' = "steal" => thief' = thief
    BY <1>5 DEF Steal
  <2>2. \A t \in Items(active) : SetHas(gray, t) => thief # t
    BY <1>0, <2>1 DEF OneChange, SetHas
  <2>3. CASE activeMutexes[m] = NoTask
    <3>1. UNCHANGED <<active, gray>> /\ activeMutexes' = Granted(thief, {m})
      BY <1>5, <2>3 DEF Steal
    <3>2. ASSUME NEW t \in Items(active), NEW n \in mutexes[t], activeMutexes[n] = t
          PROVE  activeMutexes'[n] = t
      BY <1>0, <2>3, <3>1, <3>2 DEF Granted
    <3> QED
      BY <1>0, <2>1, <2>2, <3>1, <3>2, OneChangeKept
  <2>4. CASE activeMutexes[m] # NoTask
    <3> DEFINE owner == activeMutexes[m]
    <3>1. /\ owner \in Task /\ Deactivate(owner, status[owner])
          /\ activeMutexes' = [Released(owner, mutexes[owner]) EXCEPT ![m] = thief]
      BY <1>5, <2>4 DEF Steal, TypeOK
    <3>2. Items(active') = Items(active) \ {owner}
      BY <3>1, DeactivateSets
    <3>3. \/ gray'.items = <<>> /\ DOMAIN gray'.keys = {}
          \/ gray' = gray /\ ~SetHas(gray, owner)
      BY <2>1, <3>1, OneChangeLetGo
    <3>4. ASSUME NEW t \in Items(active), t # owner, NEW n \in mutexes[t],
                 activeMutexes[n] = t
          PROVE  activeMutexes'[n] = t
      BY <1>0, <3>1, <3>4 DEF Released
    <3> HIDE DEF owner
    <3>5. CASE gray' = gray /\ ~SetHas(gray, owner)
      BY <1>0, <2>1, <2>2, <3>2, <3>4, <3>5, OneChangeKept
    <3> QED
      BY <3>3, <3>5 DEF OneChange
  <2> QED
    BY <2>3, <2>4
<1>6. ASSUME NEW t \in Task, Resume(t) \/ RunOn(t) PROVE OneChange'
  <2>1. /\ pc' # "steal" /\ active' = active /\ t \in Items(active)
    BY <1>6, ItemsType DEF Resume, RunOn, Resuming, Running, TypeOK
  <2>2. CASE UNCHANGED <<mutexes, gray, activeMutexes, changes>>
    BY <1>0, <2>1, <2>2, OneChangeKept
  <2>3. CASE OnMutexesChanged(t) /\ \E ms \in MutexLists[t] : ChangeList(t, ms)
    <3>1. changes' = changes + 1 /\ gray' = SetAdd(gray, t)
      BY <2>3 DEF OnMutexesChanged, ChangeList
    <3>2. changes = 0 /\ changes' = 1
      BY <1>0, <3>1
    <3>3. gray.items = <<>> /\ DOMAIN gray.keys = {}
      BY <3>2 DEF OneChange
    <3>4. gray'.items = <<t>> /\ DOMAIN gray'.keys = {t} /\ gray'.keys[t] = 0
      BY <3>1, <3>3 DEF SetAdd, SetHas
    <3> QED
      BY <2>1, <3>2, <3>4 DEF OneChange
  <2> QED
    BY <1>6, <2>2, <2>3 DEF Resume, RunOn
<1>7. ASSUME NEW t \in Task, RunLast(t) \/ RunLastRestoring(t) PROVE OneChange'
  <2>1. PICK st, ms : Finish(t, st, ms)
    BY <1>7 DEF RunLast, RunLastRestoring
  <2>2. /\ Deactivate(t, st) /\ activeMutexes' = Released(t, ms) /\ pc' # "steal"
        /\ changes' \in {changes, changes + 1}
        /\ \A u \in Task \ {t} : mutexes'[u] = mutexes[u]
    BY <1>7, <2>1 DEF Finish, RunLast, RunLastRestoring, Running, ChangeList, TypeOK
  <2>3. Items(active') = Items(active) \ {t}
    BY <2>2, DeactivateSets
  <2>4. \/ gray'.items = <<>> /\ DOMAIN gray'.keys = {}
        \/ gray' = gray /\ ~SetHas(gray, t)
    BY <1>0, <2>2, OneChangeLetGo
  <2>5. ASSUME NEW u \in Items(active), u # t, NEW m \in mutexes[u], activeMutexes[m] = u
        PROVE  activeMutexes'[m] = u
    BY <1>0, <2>2, <2>5 DEF Released
  <2>6. CASE gray' = gray /\ ~SetHas(gray, t)
    BY <1>0, <2>2, <2>3, <2>5, <2>6, OneChangeKept
  <2> QED
    BY <2>4, <2>6 DEF OneChange
<1>8. CASE \/ Begin \/ GrayDone \/ ActivateDone \/ ResumeDone \/ Rescheduled \/ IterateDone
           \/ \E t \in Task : Stop(t) \/ ThrowAway(t) \/ Pass(t) \/ ResumeOld(t) \/ Interrupt(t)
           \/ \E S \in SUBSET Managed : StopAll(S)
  <2>1. pc' # "steal" /\ UNCHANGED <<mutexes, active, gray, activeMutexes, changes>>
    BY <1>8 DEF Begin, GrayDone, ActivateDone, ResumeDone, Rescheduled, IterateDone,
       Stop, ThrowAway, Pass, ResumeOld, Interrupt, StopAll, Considering, Resuming,
       Interrupting
  <2> QED
    BY <1>0, <2>1, OneChangeKept
<1>9. CASE UNCHANGED vars
  BY <1>9 DEF OneChange
<1> QED
  BY <1>1, <1>2, <1>3, <1>4, <1>5, <1>6, <1>7, <1>8, <1>9
     DEF Next, Commands, Iterate, Reschedule, Run

\* What the algorithm is for (TaskManager.pm, lines 123-125), wherever a task changes
\* its list: until a second change, no two active tasks want the same mutex, but for
\* one that is still marked.
THEOREM NoConflictHolds == Spec => [](changes <= 1 => NoConflict)
<1>1. Init => TypeOK /\ Inductive /\ OneChange
  BY InitType, InitInductive DEF Init, EmptySet, OneChange
<1>2. TypeOK /\ Inductive /\ OneChange /\ [Next]_vars
      => (TypeOK /\ Inductive /\ OneChange)'
  BY NextType, NextInductive, OneChangeStep DEF Inductive
<1>3. TypeOK /\ Inductive /\ OneChange => (changes <= 1 => NoConflict)
  <2> SUFFICES ASSUME TypeOK, Inductive, OneChange, changes <= 1, Checked
               PROVE  \A t, u \in Items(active) \ Items(gray) :
                         t # u => mutexes[t] \cap mutexes[u] = {}
    BY DEF NoConflict
  <2>1. ASSUME NEW t \in Items(active) \ Items(gray)
        PROVE  \A m \in mutexes[t] : activeMutexes[m] = t
    <3>1. SetHas(gray, t) \/ \A m \in mutexes[t] : activeMutexes[m] = t
      BY DEF Inductive, HoldInv, Checked
    <3>2. CASE SetHas(gray, t)
      <4>1. gray.items # <<t>>
        <5>1. gray.items = <<t>> => 1 \in 1 .. Len(gray.items) /\ gray.items[1] = t
          OBVIOUS
        <5> QED
          BY <2>1, <5>1 DEF Items
      <4> QED
        BY <3>2, <4>1 DEF OneChange, SetHas
    <3> QED
      BY <3>1, <3>2
  <2> QED
    BY <2>1
<1> QED
  BY <1>1, <1>2, <1>3, PTL DEF Spec

-----------------------------------------------------------------------------
(* The counts by name.                                                       *)

\* Whoever leaves without being taken off the count leaves it too high.
LEMMA CountsFewer ==
    ASSUME Counts, TypeOK, Managed' \subseteq Managed, UNCHANGED tasksByName
    PROVE  Counts'
<1> SUFFICES ASSUME NEW n \in Names
             PROVE  IsFiniteSet(Named(n)') /\ Cardinality(Named(n)') <= tasksByName[n]
  BY DEF Counts
<1>1. IsFiniteSet(Named(n)) /\ Cardinality(Named(n)) <= tasksByName[n] /\ tasksByName[n] \in Int
  BY DEF Counts, TypeOK
<1>2. Named(n)' \subseteq Named(n)
  BY DEF Named
<1>3. IsFiniteSet(Named(n)') /\ Cardinality(Named(n)') <= Cardinality(Named(n))
  BY <1>1, <1>2, FS_Subset
<1>4. Cardinality(Named(n)) \in Nat /\ Cardinality(Named(n)') \in Nat
  BY <1>1, <1>3, FS_CardinalityType
<1> QED
  BY <1>1, <1>3, <1>4

\* A task that comes is counted.
LEMMA CountsAdded ==
    ASSUME Counts, TypeOK, NEW t \in Task, Managed' = Managed \cup {t},
           tasksByName' = [tasksByName EXCEPT ![Name[t]] = @ + 1]
    PROVE  Counts'
<1> SUFFICES ASSUME NEW n \in Names
             PROVE  IsFiniteSet(Named(n)') /\ Cardinality(Named(n)') <= tasksByName'[n]
  BY DEF Counts
<1>1. /\ IsFiniteSet(Named(n)) /\ Cardinality(Named(n)) <= tasksByName[n]
      /\ tasksByName \in [Names -> Int] /\ Cardinality(Named(n)) \in Nat
  BY FS_CardinalityType DEF Counts, TypeOK
<1>2. CASE Name[t] = n
  <2>1. Named(n)' = Named(n) \cup {t}
    BY <1>2 DEF Named
  <2>2. /\ IsFiniteSet(Named(n) \cup {t})
        /\ Cardinality(Named(n) \cup {t}) \in {Cardinality(Named(n)), Cardinality(Named(n)) + 1}
    BY <1>1, FS_AddElement
  <2>3. tasksByName'[n] = tasksByName[n] + 1
    BY <1>1, <1>2
  <2> QED
    BY <1>1, <2>1, <2>2, <2>3
<1>3. CASE Name[t] # n
  <2>1. Named(n)' = Named(n)
    BY <1>3 DEF Named
  <2>2. tasksByName'[n] = tasksByName[n]
    BY <1>1, <1>3
  <2> QED
    BY <1>1, <2>1, <2>2
<1> QED
  BY <1>2, <1>3

\* deactivateTask keeps the counts of a task the manager has: one that finished goes,
\* and is taken off; any other stays.
LEMMA CountsDeactivated ==
    ASSUME Counts, TypeOK, Partition, NEW t \in Items(active), NEW st, Deactivate(t, st)
    PROVE  Counts'
<1>0. t \in Task /\ t \notin Items(inactive)
  BY ItemsType DEF TypeOK, Partition
<1>1. CASE st \notin Finished
  <2>1. Managed' = Managed
    BY <1>0, <1>1, DeactivateSets DEF Managed
  <2>2. UNCHANGED tasksByName
    BY <1>1 DEF Deactivate
  <2> QED
    BY <2>1, <2>2, CountsFewer
<1>2. CASE st \in Finished
  <2>1. Managed' = Managed \ {t} /\ t \in Managed
    BY <1>0, <1>2, DeactivateSets DEF Managed
  <2>2. tasksByName' = [tasksByName EXCEPT ![Name[t]] = IF @ > LowestCount THEN @ - 1 ELSE @]
    BY <1>2 DEF Deactivate
  <2> SUFFICES ASSUME NEW n \in Names
               PROVE  IsFiniteSet(Named(n)') /\ Cardinality(Named(n)') <= tasksByName'[n]
    BY DEF Counts
  <2>3. /\ IsFiniteSet(Named(n)) /\ Cardinality(Named(n)) <= tasksByName[n]
        /\ tasksByName \in [Names -> Int] /\ Cardinality(Named(n)) \in Nat
    BY FS_CardinalityType DEF Counts, TypeOK
  <2>4. CASE Name[t] = n
    <3>1. Named(n)' = Named(n) \ {t} /\ t \in Named(n)
      BY <2>1, <2>4 DEF Named
    <3>2. /\ IsFiniteSet(Named(n) \ {t})
          /\ Cardinality(Named(n) \ {t}) = Cardinality(Named(n)) - 1
      BY <2>3, <3>1, FS_RemoveElement
    <3>3. tasksByName[n] > LowestCount
      BY <2>3 DEF LowestCount
    <3>4. tasksByName'[n] = tasksByName[n] - 1
      BY <2>2, <2>3, <2>4, <3>3
    <3> QED
      BY <2>3, <3>1, <3>2, <3>4
  <2>5. CASE Name[t] # n
    <3>1. Named(n)' = Named(n)
      BY <2>1, <2>5 DEF Named
    <3>2. tasksByName'[n] = tasksByName[n]
      BY <2>2, <2>3, <2>5
    <3> QED
      BY <2>3, <3>1, <3>2
  <2> QED
    BY <2>4, <2>5
<1> QED
  BY <1>1, <1>2

\* A lock that was leaked would let its owner be deactivated a second time, when it is
\* stolen: OwnersActive says that there is none.
LEMMA CountStep ==
    TypeOK /\ Inductive /\ OwnersActive /\ CountInv /\ [Next]_vars => CountInv'
<1> SUFFICES ASSUME TypeOK, Inductive, OwnersActive, CountInv, [Next]_vars
             PROVE  CountInv'
  OBVIOUS
<1> USE DEF vars, objects, books, locals
<1>0. Partition /\ GrayInv /\ StealInv
  BY DEF Inductive
<1>1. CASE GrayStep
  <2>1. pc = "gray" /\ pc' = "gray" /\ gray.items # <<>>
    BY <1>1 DEF GrayStep
  <2>2. CASE Stuck
    BY <1>0, <1>1, <2>1, <2>2, StuckStays DEF CountInv
  <2>3. CASE ~Stuck
    <3> DEFINE t == gray.items[1]
    <3>1. Counts /\ t \in Items(active)
      BY <1>0, <2>1, <2>3, FirstItem DEF CountInv, GrayInv, GrayActive, TypeOK
    <3>2. CASE Deactivate(t, status[t])
      <4> HIDE DEF t
      <4> QED
        BY <1>0, <3>1, <3>2, CountsDeactivated DEF CountInv
    <3>3. CASE UNCHANGED <<active, inactive, tasksByName>>
      BY <3>1, <3>3, CountsFewer DEF CountInv, Managed
    <3> QED
      BY <1>1, <3>2, <3>3 DEF GrayStep
  <2> QED
    BY <2>2, <2>3
<1>2. ASSUME ~GrayStep PROVE Counts \/ UNCHANGED vars
  <2> SUFFICES ASSUME pc = "gray", Stuck PROVE UNCHANGED vars
    BY DEF CountInv
  <2>1. gray.items # <<>>
    BY DEF Stuck
  <2> QED
    BY <1>2, <2>1 DEF Next, Commands, Add, Stop, StopAll, Iterate, Begin, Reschedule,
       GrayDone, ThrowAway, ChooseFree, ChooseSteal, Pass, Considering, Steal,
       ActivateDone, Resume, ResumeOld, Resuming, Interrupt, Interrupting, ResumeDone,
       Rescheduled, Run, RunOn, RunLast, RunLastRestoring, Running, IterateDone
<1>3. ASSUME Counts, NEW t \in Task, Add(t) PROVE Counts'
  <2>1. Managed' = Managed \cup {t}
    BY <1>0, <1>3, AddConsistent DEF Add, TypeOK, Partition, Managed
  <2> QED
    BY <1>3, <2>1, CountsAdded DEF Add
<1>4. ASSUME Counts, NEW t \in Task, ThrowAway(t) PROVE Counts'
  <2>1. Managed' \subseteq Managed
    BY <1>0, <1>4, RemoveConsistent DEF ThrowAway, TypeOK, Partition, Managed
  <2> QED
    BY <1>4, <2>1, CountsFewer DEF ThrowAway
<1>5. ASSUME Counts, NEW t \in Task, ChooseFree(t) \/ ChooseSteal(t) PROVE Counts'
  <2>1. /\ Items(active') = Items(active) \cup {t}
        /\ Items(inactive') = Items(inactive) \ {t}
        /\ t \in Items(inactive)
    BY <1>0, <1>5, ChosenSets DEF ChooseFree, ChooseSteal
  <2>2. Managed' \subseteq Managed /\ UNCHANGED tasksByName
    BY <1>5, <2>1 DEF Managed, ChooseFree, ChooseSteal
  <2> QED
    BY <1>5, <2>2, CountsFewer
<1>6. ASSUME Counts, NEW m \in Mutex, Steal(m) PROVE Counts'
  <2> DEFINE owner == activeMutexes[m]
  <2>1. owner # NoTask => owner \in Items(active)
    BY DEF OwnersActive
  <2>2. \/ owner # NoTask /\ Deactivate(owner, status[owner])
        \/ UNCHANGED <<active, inactive, tasksByName>>
    BY <1>6 DEF Steal
  <2>3. CASE owner # NoTask /\ Deactivate(owner, status[owner])
    <3> HIDE DEF owner
    <3> QED
      BY <1>0, <1>6, <2>1, <2>3, CountsDeactivated
  <2> QED
    BY <1>6, <2>2, <2>3, CountsFewer DEF Managed
<1>7. ASSUME Counts, NEW t \in Task, RunLast(t) \/ RunLastRestoring(t) PROVE Counts'
  <2>1. t \in Items(active)
    BY <1>7 DEF RunLast, RunLastRestoring, Running, Items, TypeOK
  <2>2. PICK st : Deactivate(t, st)
    BY <1>7 DEF RunLast, RunLastRestoring, Finish
  <2> QED
    BY <1>0, <1>7, <2>1, <2>2, CountsDeactivated
<1>8. ASSUME Counts, UNCHANGED <<active, inactive, tasksByName>> PROVE Counts'
  BY <1>8, CountsFewer DEF Managed
<1>9. CASE UNCHANGED vars
  BY <1>9 DEF CountInv, Counts, Named, Managed, Stuck, Conflicts
<1>10. CASE ~GrayStep /\ Counts /\ Next
  <2>1. ASSUME \/ Begin \/ GrayDone \/ ActivateDone \/ ResumeDone \/ Rescheduled
               \/ IterateDone \/ \E S \in SUBSET Managed : StopAll(S)
               \/ \E t \in Task : \/ Stop(t) \/ Pass(t) \/ Resume(t) \/ ResumeOld(t)
                                  \/ Interrupt(t) \/ RunOn(t)
        PROVE  Counts'
    <3>1. UNCHANGED <<active, inactive, tasksByName>>
      BY <2>1 DEF Begin, GrayDone, ActivateDone, ResumeDone, Rescheduled, IterateDone,
         Stop, Pass, Resume, ResumeOld, Interrupt, RunOn, StopAll
    <3> QED
      BY <1>8, <1>10, <3>1
  <2>2. Counts'
    BY <1>3, <1>4, <1>5, <1>6, <1>7, <1>10, <2>1
       DEF Next, Commands, Iterate, Reschedule, Run
  <2> QED
    BY <2>2 DEF CountInv
<1> QED
  BY <1>1, <1>2, <1>9, <1>10

\* No task is missing in the count of its name, for any tasks and any number of list
\* changes, as long as no task changes its list once it has stopped: the leaked locks
\* of those are stolen from a task that is gone, which is then taken off twice.
THEOREM EveryTaskCountedHolds ==
    ASSUME "afterStop" \notin ChangePoints
    PROVE  Spec => []EveryTaskCounted
<1>1. Init => TypeOK /\ Inductive /\ OwnersActive /\ CountInv
  <2> SUFFICES ASSUME Init PROVE TypeOK /\ Inductive /\ OwnersActive /\ CountInv
    OBVIOUS
  <2>1. TypeOK /\ Inductive /\ OwnersActive
    BY InitType, InitInductive DEF Init, OwnersActive
  <2>2. ASSUME NEW n \in Names
        PROVE  IsFiniteSet(Named(n)) /\ Cardinality(Named(n)) <= tasksByName[n]
    <3>1. Named(n) = {} /\ tasksByName[n] = 0
      BY EmptyConsistent DEF Init, Named, Managed
    <3> QED
      BY <3>1, FS_EmptySet
  <2> QED
    BY <2>1, <2>2 DEF CountInv, Counts
<1>2. TypeOK /\ Inductive /\ OwnersActive /\ CountInv /\ [Next]_vars
      => (TypeOK /\ Inductive /\ OwnersActive /\ CountInv)'
  BY NextType, NextInductive, OwnersActiveStep, CountStep
<1>3. CountInv => EveryTaskCounted
  BY DEF CountInv, Counts, EveryTaskCounted, Checked
<1> QED
  BY <1>1, <1>2, <1>3, PTL DEF Spec
=============================================================================
