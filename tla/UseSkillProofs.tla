--------------------------- MODULE UseSkillProofs ---------------------------
(***************************************************************************)
(* Proofs about UseSkill, for any number of tries and however often the    *)
(* character sits down and the manager interrupts: the four tasks act as   *)
(* one, and the tries are bounded.                                         *)
(***************************************************************************)
EXTENDS UseSkill, WithSubtaskProofs

USE DEF Task, Wrapper, Mutex, Status

\* Between preparations the report has its subtask, and nobody else.
Alone(o) ==
    /\ o.sub = {"report"} /\ o.listens = {"report"}
    /\ o.mutexes["report"] = Own /\ o.mutexes["skill"] = Own
    /\ o.mutexes["chain"] = {"movement"} /\ o.mutexes["stand"] = {"movement"}

\* While the character gets up, all four are in the stack.
Stacked(o) ==
    /\ o.sub = Wrapper /\ o.listens = Wrapper
    /\ \A t \in Task : o.mutexes[t] = {"movement"}
    /\ o.saved["skill"] = Own /\ o.saved["chain"] = {"movement"}

Follows(o) ==
    \A t \in Reached(o, "report") \ {"report"} :
        o.status[t] = IF o.status["report"] = "INACTIVE" THEN "RUNNING"
                      ELSE o.status["report"]

Over(o) == o.status["report"] \in {"DONE", "STOPPED"}

\* What the task objects are like in stage s: "report" lets go of its subtask
\* when it ends.
Sound(o, s) ==
    /\ o \in Objects
    /\ Over(o) => "report" \notin o.sub
    /\ ~Over(o) => /\ Alone(o) \/ (Stacked(o) /\ s = "PREPARING")
                   /\ Follows(o)

\* Each preparation is followed by a cast that no test of castTries guards:
\* there must be one left for it.
TriesInv ==
    /\ castTries <= MaxTries + sits
    /\ stage = "PREPARING" \/ sitting => castTries < MaxTries + sits
    /\ stage # "PREPARING" /\ sitting => sits > 0

UseInv ==
    /\ "finished" \in seen => used
    /\ outcome = "success" => used

Inductive == TypeOK /\ Sound(tasks, stage) /\ TriesInv /\ UseInv

-----------------------------------------------------------------------------
(* The task objects.                                                         *)

LEMMA SoundStart == Sound(Follow(New, "report"), "PREPARING")
<1> DEFINE o == Follow(New, "report")
<1>1. New \in Objects
  BY DEF New, Objects, Own
<1>2. /\ o \in Objects
      /\ o.sub = New.sub \union {"report"} /\ o.listens = New.listens \union {"report"}
      /\ o.status = New.status
      /\ o.mutexes = [u \in Task |->
            IF u = "report" \/ u \in Followers(New.listens \union {"report"}, "report")
            THEN New.mutexes[Subtask["report"]] ELSE New.mutexes[u]]
  BY <1>1, FollowIs
<1>3. Followers(New.listens \union {"report"}, "report") = {}
  BY FollowersIs
<1>4. /\ New.sub = {} /\ New.listens = {} /\ Subtask["report"] = "skill"
      /\ New.status["report"] = "INACTIVE" /\ New.status["skill"] = "RUNNING"
      /\ New.mutexes["skill"] = Own
      /\ New.mutexes["chain"] = {"movement"} /\ New.mutexes["stand"] = {"movement"}
  BY DEF New, Subtask
<1> HIDE DEF o
<1>5. Alone(o)
  BY <1>2, <1>3, <1>4 DEF Alone
<1>6. Reached(o, "report") = {"report", "skill"}
  BY <1>5, ReachedIs DEF Alone
<1>7. Follows(o) /\ ~Over(o)
  BY <1>2, <1>4, <1>6 DEF Follows, Over
<1> QED
  BY <1>2, <1>5, <1>7 DEF Sound, o

\* The skill task and its report finish.
LEMMA SoundEnd ==
    ASSUME NEW o \in Objects, NEW s
    PROVE  LET r == Complete(SetStatus(o, {"skill"}, "DONE"), "report") IN
           Sound(r, s) /\ r.status["report"] = "DONE"
<1> DEFINE p == SetStatus(o, {"skill"}, "DONE")
           r == Complete(p, "report")
<1>1. {"skill"} \in SUBSET Task /\ "DONE" \in Status
  OBVIOUS
<1>2. p \in Objects
  BY <1>1, SetStatusIs
<1> HIDE DEF p
<1>3. /\ r \in Objects /\ r.sub = p.sub \ {"report"}
      /\ r.status = [p.status EXCEPT !["report"] = "DONE"]
  BY <1>2, CompleteIs
<1>4. r.status["report"] = "DONE"
  BY <1>2, <1>3 DEF Objects
<1> HIDE DEF r
<1> QED
  BY <1>3, <1>4 DEF Sound, Over, r, p

\* interrupt() and resume() are passed on to the last task of the stack.
LEMMA SoundCall ==
    ASSUME NEW o, NEW s, Sound(o, s), ~Over(o), NEW x \in {"RUNNING", "INTERRUPTED"}
    PROVE  LET r == SetStatus(o, Reached(o, "report"), x) IN
           /\ Sound(r, s)
           /\ r.status["report"] = x /\ r.mutexes = o.mutexes
<1> DEFINE T == Reached(o, "report")
           r == SetStatus(o, T, x)
<1>1. T \in SUBSET Task /\ "report" \in T /\ x \in Status /\ o \in Objects
  BY DEF Reached, Sound
<1> HIDE DEF T, Status
<1>2. /\ r \in Objects
      /\ r.status = [t \in Task |-> IF t \in T THEN x ELSE o.status[t]]
      /\ r.mutexes = o.mutexes /\ r.saved = o.saved
      /\ r.sub = o.sub /\ r.listens = o.listens
  BY <1>1, SetStatusIs
<1> HIDE DEF r
<1>3. Reached(r, "report") = T
  BY <1>2 DEF Reached, T
<1>4. Follows(r) /\ ~Over(r) /\ r.status["report"] = x
  BY <1>1, <1>2, <1>3 DEF Follows, Over
<1>5. Alone(o) => Alone(r)
  BY <1>2 DEF Alone
<1>6. Stacked(o) => Stacked(r)
  BY <1>2 DEF Stacked
<1> QED
  BY <1>2, <1>4, <1>5, <1>6 DEF Sound, r, T

\* activate() is not: the subtask is RUNNING already.
LEMMA SoundActivate ==
    ASSUME NEW o, NEW s, Sound(o, s), o.status["report"] = "INACTIVE"
    PROVE  LET r == SetStatus(o, {"report"}, "RUNNING") IN
           Sound(r, s) /\ r.status["report"] = "RUNNING"
<1> DEFINE T == {"report"}
           r == SetStatus(o, T, "RUNNING")
<1>1. T \in SUBSET Task /\ "RUNNING" \in Status /\ o \in Objects /\ ~Over(o)
  BY DEF Sound, Over
<1> HIDE DEF T
<1>2. /\ r \in Objects
      /\ r.status = [t \in Task |-> IF t \in T THEN "RUNNING" ELSE o.status[t]]
      /\ r.mutexes = o.mutexes /\ r.saved = o.saved
      /\ r.sub = o.sub /\ r.listens = o.listens
  BY <1>1, SetStatusIs
<1> HIDE DEF r
<1>3. Reached(r, "report") = Reached(o, "report")
  BY <1>2 DEF Reached
<1>4. Reached(o, "report") \subseteq Task
  BY DEF Reached
<1>5. Follows(o)
  BY <1>1 DEF Sound
<1>6. r.status["report"] = "RUNNING"
  BY <1>2 DEF T
<1>7. Follows(r)
  BY <1>2, <1>3, <1>4, <1>5, <1>6 DEF Follows, T
<1>8. Alone(o) => Alone(r)
  BY <1>2 DEF Alone
<1>9. Stacked(o) => Stacked(r)
  BY <1>2 DEF Stacked
<1> QED
  BY <1>1, <1>2, <1>6, <1>7, <1>8, <1>9 DEF Sound, Over, r, T

LEMMA SoundStop ==
    ASSUME NEW o, NEW s, Sound(o, s)
    PROVE  LET r == Stop(o, "report") IN
           /\ Sound(r, s)
           /\ r.status["report"] = "STOPPED" /\ r.mutexes = o.mutexes
<1> DEFINE r == Stop(o, "report")
<1>1. o \in Objects /\ "report" \in Task /\ "report" \in Reached(o, "report")
  BY DEF Sound, Reached
<1>2. /\ r \in Objects
      /\ r.sub = o.sub \ Reached(o, "report") /\ r.mutexes = o.mutexes
      /\ r.status = [u \in Task |-> IF u \in Reached(o, "report") THEN "STOPPED"
                                    ELSE o.status[u]]
  BY <1>1, StopIs
<1> HIDE DEF r
<1> QED
  BY <1>1, <1>2 DEF Sound, Over, r

\* The chain and SitStand join the stack, if they are not there.
LEMMA PreparingIs ==
    ASSUME Sound(tasks, "PREPARING"), Is("RUNNING")
    PROVE  /\ Preparing \in Objects /\ Stacked(Preparing)
           /\ \A t \in Task : Preparing.status[t] = "RUNNING"
<1>1. tasks \in Objects /\ (Alone(tasks) \/ Stacked(tasks)) /\ Follows(tasks)
  BY DEF Sound, Over, Is
<1>2. tasks.status["report"] = "RUNNING"
  BY DEF Is
<1>3. CASE Stacked(tasks)
  <2>1. Preparing = tasks
    BY <1>3 DEF Preparing, Stacked
  <2>2. Reached(tasks, "report") = Task
    BY <1>3, ReachedIs DEF Stacked
  <2> QED
    BY <1>1, <1>2, <1>3, <2>1, <2>2 DEF Follows
<1>4. CASE Alone(tasks)
  <2> DEFINE p == SetStatus(tasks, {"chain", "stand"}, "RUNNING")
             q == Follow(p, "chain")
             r == Follow(q, "skill")
  <2>1. Preparing = r
    BY <1>4 DEF Preparing, Alone
  <2>2. tasks.status["skill"] = "RUNNING"
    <3>1. Reached(tasks, "report") = {"report", "skill"}
      BY <1>4, ReachedIs DEF Alone
    <3> QED
      BY <1>1, <1>2, <3>1 DEF Follows
  <2>3. {"chain", "stand"} \in SUBSET Task /\ "RUNNING" \in Status
    OBVIOUS
  <2>4. /\ p \in Objects
        /\ p.mutexes = tasks.mutexes /\ p.saved = tasks.saved
        /\ p.sub = tasks.sub /\ p.listens = tasks.listens
        /\ p.status = [t \in Task |-> IF t \in {"chain", "stand"} THEN "RUNNING"
                                      ELSE tasks.status[t]]
    BY <1>1, <2>3, SetStatusIs
  <2>5. \A t \in Task : p.status[t] = "RUNNING"
    BY <1>2, <2>2, <2>4
  <2> HIDE DEF p
  <2>6. /\ q \in Objects
        /\ q.sub = p.sub \union {"chain"} /\ q.listens = p.listens \union {"chain"}
        /\ q.status = p.status
        /\ q.saved = [p.saved EXCEPT !["chain"] = p.mutexes["chain"]]
        /\ q.mutexes = [u \in Task |->
              IF u = "chain" \/ u \in Followers(p.listens \union {"chain"}, "chain")
              THEN p.mutexes[Subtask["chain"]] ELSE p.mutexes[u]]
    BY <2>4, FollowIs
  <2>7. Followers(p.listens \union {"chain"}, "chain") = {}
    BY <1>4, <2>4, FollowersIs DEF Alone
  <2>8. Subtask["chain"] = "stand" /\ Subtask["skill"] = "chain"
    BY DEF Subtask
  <2>9. /\ q.sub = {"report", "chain"} /\ q.listens = {"report", "chain"}
        /\ q.mutexes["report"] = Own /\ q.mutexes["skill"] = Own
        /\ q.mutexes["chain"] = {"movement"} /\ q.mutexes["stand"] = {"movement"}
        /\ q.saved["chain"] = {"movement"}
    <3>1. p.saved \in [Wrapper -> SUBSET Mutex]
      BY <2>4 DEF Objects
    <3> QED
      BY <1>4, <2>4, <2>6, <2>7, <2>8, <3>1 DEF Alone
  <2> HIDE DEF q
  <2>10. /\ r \in Objects
         /\ r.sub = q.sub \union {"skill"} /\ r.listens = q.listens \union {"skill"}
         /\ r.status = q.status
         /\ r.saved = [q.saved EXCEPT !["skill"] = q.mutexes["skill"]]
         /\ r.mutexes = [u \in Task |->
               IF u = "skill" \/ u \in Followers(q.listens \union {"skill"}, "skill")
               THEN q.mutexes[Subtask["skill"]] ELSE q.mutexes[u]]
    BY <2>6, FollowIs
  <2>11. Followers(q.listens \union {"skill"}, "skill") = {"report"}
    BY <2>9, FollowersIs
  <2>12. q.saved \in [Wrapper -> SUBSET Mutex]
    BY <2>6 DEF Objects
  <2> HIDE DEF r
  <2>13. Stacked(r)
    BY <2>8, <2>9, <2>10, <2>11, <2>12 DEF Stacked
  <2> QED
    BY <2>1, <2>5, <2>6, <2>10, <2>13
<1> QED
  BY <1>1, <1>3, <1>4

\* Both leave it again, and every list is as it was before.
LEMMA PreparedIs ==
    ASSUME Sound(tasks, "PREPARING"), Is("RUNNING")
    PROVE  /\ Prepared \in Objects /\ Alone(Prepared)
           /\ Prepared.status["report"] = "RUNNING"
           /\ Prepared.status["skill"] = "RUNNING"
<1> DEFINE o == Preparing
           p == SetStatus(o, {"stand"}, "DONE")
           q == Complete(p, "chain")
           r == Drop(q, "skill")
<1>1. o \in Objects /\ Stacked(o) /\ \A t \in Task : o.status[t] = "RUNNING"
  BY PreparingIs
<1>2. Prepared = r
  BY DEF Prepared
<1>3. {"stand"} \in SUBSET Task /\ "DONE" \in Status
  OBVIOUS
<1> HIDE DEF o
<1>4. /\ p \in Objects
      /\ p.mutexes = o.mutexes /\ p.saved = o.saved
      /\ p.sub = o.sub /\ p.listens = o.listens
      /\ p.status = [t \in Task |-> IF t \in {"stand"} THEN "DONE" ELSE o.status[t]]
  BY <1>1, <1>3, SetStatusIs
<1> HIDE DEF p
<1>5. /\ q \in Objects
      /\ q.sub = p.sub \ {"chain"} /\ q.listens = p.listens \ {"chain"}
      /\ q.saved = p.saved
      /\ q.status = [p.status EXCEPT !["chain"] = "DONE"]
      /\ q.mutexes = [u \in Task |->
            IF u = "chain" \/ u \in Followers(p.listens \ {"chain"}, "chain")
            THEN p.saved["chain"] ELSE p.mutexes[u]]
  BY <1>4, CompleteIs
<1> HIDE DEF q
<1>6. Followers(p.listens \ {"chain"}, "chain") = {"report", "skill"}
  BY <1>1, <1>4, FollowersIs DEF Stacked
<1>7. /\ q.sub = {"report", "skill"} /\ q.listens = {"report", "skill"}
      /\ \A u \in Task : q.mutexes[u] = {"movement"}
      /\ q.saved["skill"] = Own
  BY <1>1, <1>4, <1>5, <1>6 DEF Stacked
<1>8. q.status["report"] = "RUNNING" /\ q.status["skill"] = "RUNNING"
  <2>1. p.status \in [Task -> Status]
    BY <1>4 DEF Objects
  <2> QED
    BY <1>1, <1>4, <1>5, <2>1
<1>9. /\ r \in Objects
      /\ r.sub = q.sub \ {"skill"} /\ r.listens = q.listens \ {"skill"}
      /\ r.status = q.status
      /\ r.mutexes = [u \in Task |->
            IF u = "skill" \/ u \in Followers(q.listens \ {"skill"}, "skill")
            THEN q.saved["skill"] ELSE q.mutexes[u]]
  BY <1>5, DropIs
<1>10. Followers(q.listens \ {"skill"}, "skill") = {"report"}
  BY <1>7, FollowersIs
<1> HIDE DEF r
<1>11. Alone(r)
  BY <1>7, <1>9, <1>10 DEF Alone
<1> QED
  BY <1>2, <1>8, <1>9, <1>11

-----------------------------------------------------------------------------
(* The steps.                                                                *)

LEMMA IterateSound ==
    ASSUME Sound(tasks, stage), Iterate
    PROVE  /\ Sound(tasks', stage')
           /\ Is("RUNNING") /\ tasks'.status["report"] \in {"RUNNING", "DONE"}
<1>1. Is("RUNNING") /\ tasks \in Objects /\ ~Over(tasks)
  <2>1. Is("RUNNING")
    BY DEF Iterate, Preparation, Casting, NoSkill, PreparationDone, PreparationFails,
           Prepare, TargetLostPreparing, Finished, CastStarts, NotStarted, TargetLost,
           Recast, GiveUp, CastingFails, PrepareAgain, Cancelled, StopAtHit,
           CastAfterHit, GiveUpAtHit, CastTimesOut, Looks, InStage
  <2> QED
    BY <2>1 DEF Sound, Over, Is
<1>2. ASSUME NEW o \in Objects, NEW e, End(o, e)
      PROVE  Sound(tasks', stage') /\ tasks'.status["report"] = "DONE"
  <2>1. tasks' = Complete(SetStatus(o, {"skill"}, "DONE"), "report")
    BY <1>2 DEF End
  <2> QED
    BY <2>1, SoundEnd
<1>3. CASE PreparationDone
  <2>1. stage = "PREPARING" /\ tasks' = Prepared
    BY <1>3 DEF PreparationDone, InStage, GoOn
  <2>2. /\ tasks' \in Objects /\ Alone(tasks')
        /\ tasks'.status["report"] = "RUNNING" /\ tasks'.status["skill"] = "RUNNING"
    BY <1>1, <2>1, PreparedIs
  <2>3. Reached(tasks', "report") = {"report", "skill"}
    BY <2>2, ReachedIs DEF Alone
  <2>4. Follows(tasks') /\ ~Over(tasks')
    BY <2>2, <2>3 DEF Follows, Over
  <2> QED
    BY <1>1, <2>2, <2>4 DEF Sound
<1>4. CASE PreparationFails
  <2>1. stage = "PREPARING" /\ End(Prepared, "PREPARATION_FAILED")
    BY <1>4 DEF PreparationFails, InStage
  <2>2. Prepared \in Objects
    BY <1>1, <2>1, PreparedIs
  <2> QED
    BY <1>1, <1>2, <2>1, <2>2
<1>5. CASE Prepare
  <2>1. stage = "PREPARING" /\ stage' = "PREPARING" /\ tasks' = Preparing
    BY <1>5 DEF Prepare, InStage, GoOn
  <2>2. /\ tasks' \in Objects /\ Stacked(tasks')
        /\ \A t \in Task : tasks'.status[t] = "RUNNING"
    BY <1>1, <2>1, PreparingIs
  <2>3. Reached(tasks', "report") = Task
    BY <2>2, ReachedIs DEF Stacked
  <2>4. Follows(tasks') /\ ~Over(tasks')
    BY <2>2, <2>3 DEF Follows, Over
  <2> QED
    BY <1>1, <2>1, <2>2, <2>4 DEF Sound
<1>6. CASE TargetLostPreparing
  <2>1. stage = "PREPARING" /\ End(Stop(Preparing, "chain"), "TARGET_LOST")
    BY <1>6 DEF TargetLostPreparing, InStage
  <2>2. Stop(Preparing, "chain") \in Objects
    BY <1>1, <2>1, PreparingIs, StopIs
  <2> QED
    BY <1>1, <1>2, <2>1, <2>2
<1>7. CASE CastStarts \/ Recast \/ PrepareAgain \/ CastAfterHit
  <2>1. stage # "PREPARING" /\ tasks' = tasks
    BY <1>7 DEF CastStarts, Recast, PrepareAgain, CastAfterHit, NotStarted, Cancelled,
                Looks, InStage, GoOn
  <2>2. Sound(tasks, stage')
    BY <1>1, <2>1 DEF Sound
  <2> QED
    BY <1>1, <2>1, <2>2 DEF Is
<1>8. CASE NoSkill \/ Finished \/ TargetLost \/ GiveUp \/ CastingFails \/ StopAtHit
           \/ GiveUpAtHit \/ CastTimesOut
  <2>1. \E e : End(tasks, e)
    BY <1>8 DEF NoSkill, Finished, TargetLost, GiveUp, CastingFails, StopAtHit,
                GiveUpAtHit, CastTimesOut, Fails
  <2> QED
    BY <1>1, <1>2, <2>1
<1> QED
  BY <1>3, <1>4, <1>5, <1>6, <1>7, <1>8 DEF Iterate, Preparation, Casting

\* Every step keeps the task objects in order, and is a step of one task.
LEMMA NextSound ==
    ASSUME Sound(tasks, stage), Next
    PROVE  /\ Sound(tasks', stage')
           /\ \/ AsTask!Next
              \/ UNCHANGED <<tasks.status["report"], tasks.mutexes["report"]>>
<1>1. tasks \in Objects
  BY DEF Sound
<1>2. CASE Iterate
  <2>1. /\ Sound(tasks', stage')
        /\ Is("RUNNING") /\ tasks'.status["report"] \in {"RUNNING", "DONE"}
    BY <1>2, IterateSound
  <2>2. tasks'.mutexes["report"] \in SUBSET Mutex
    BY <2>1 DEF Sound, Objects
  <2>3. AsTask!Iterate
    BY <2>1, <2>2 DEF AsTask!Iterate, Is
  <2> QED
    BY <2>1, <2>3 DEF AsTask!Next
<1>3. CASE Activate
  <2>1. /\ tasks.status["report"] = "INACTIVE" /\ stage' = stage
        /\ tasks' = SetStatus(tasks, {"report"}, "RUNNING")
    BY <1>3 DEF Activate, Call
  <2>2. Sound(tasks', stage') /\ tasks'.status["report"] = "RUNNING"
    BY <2>1, SoundActivate
  <2>3. tasks'.mutexes["report"] \in SUBSET Mutex
    BY <2>2 DEF Sound, Objects
  <2>4. AsTask!Activate
    BY <2>1, <2>2, <2>3 DEF AsTask!Activate
  <2> QED
    BY <2>2, <2>4 DEF AsTask!Next
<1>4. CASE InterruptTask
  <2>1. /\ tasks.status["report"] = "RUNNING" /\ ~Over(tasks) /\ stage' = stage
        /\ tasks' = SetStatus(tasks, Reached(tasks, "report"), "INTERRUPTED")
    BY <1>4 DEF InterruptTask, Call, Interrupt, Over
  <2>2. /\ Sound(tasks', stage')
        /\ tasks'.status["report"] = "INTERRUPTED" /\ tasks'.mutexes = tasks.mutexes
    BY <2>1, SoundCall
  <2>3. AsTask!Interrupt
    BY <2>1, <2>2 DEF AsTask!Interrupt
  <2> QED
    BY <2>2, <2>3 DEF AsTask!Next
<1>5. CASE ResumeTask
  <2>1. /\ tasks.status["report"] = "INTERRUPTED" /\ ~Over(tasks) /\ stage' = stage
        /\ tasks' = SetStatus(tasks, Reached(tasks, "report"), "RUNNING")
    BY <1>5 DEF ResumeTask, Call, Resume, Over
  <2>2. /\ Sound(tasks', stage')
        /\ tasks'.status["report"] = "RUNNING" /\ tasks'.mutexes = tasks.mutexes
    BY <2>1, SoundCall
  <2>3. AsTask!Resume
    BY <2>1, <2>2 DEF AsTask!Resume
  <2> QED
    BY <2>2, <2>3 DEF AsTask!Next
<1>6. CASE StopTask
  <2>1. /\ tasks.status["report"] \in {"INACTIVE", "RUNNING", "INTERRUPTED"}
        /\ stage' = stage /\ tasks' = Stop(tasks, "report")
    BY <1>6 DEF StopTask, Call
  <2>2. /\ Sound(tasks', stage')
        /\ tasks'.status["report"] = "STOPPED" /\ tasks'.mutexes = tasks.mutexes
    BY <2>1, SoundStop
  <2>3. AsTask!Stop
    BY <2>1, <2>2 DEF AsTask!Stop
  <2> QED
    BY <2>2, <2>3 DEF AsTask!Next
<1>7. CASE World
  <2>1. tasks' = tasks /\ stage' = stage
    BY <1>7 DEF World, StartsCasting, UsesSkill, Refuses, Loses, Interrupted,
                UsesAnother, Server, StandsUp, SitsDown
  <2> QED
    BY <2>1
<1> QED
  BY <1>2, <1>3, <1>4, <1>5, <1>6, <1>7 DEF Next

LEMMA NextTries ==
    ASSUME TypeOK, TriesInv, Next
    PROVE  TriesInv'
<1> USE UseSkillAssumption
<1>1. castTries \in Nat /\ sits \in Nat /\ MaxTries \in Nat \ {0}
  BY DEF TypeOK
<1> USE DEF TriesInv, game, option, others
<1>2. CASE PreparationDone
  BY <1>1, <1>2 DEF PreparationDone, InStage, CastSkill
<1>3. CASE PrepareAgain
  BY <1>1, <1>3 DEF PrepareAgain, Silent
<1>4. CASE Recast \/ CastAfterHit
  <2>1. /\ castTries < MaxTries /\ castTries' = castTries + 1
        /\ stage # "PREPARING" /\ stage' # "PREPARING"
        /\ UNCHANGED <<sits, sitting>>
    BY <1>4 DEF Recast, CastAfterHit, NotStarted, Cancelled, Looks, InStage, CastSkill
  <2> QED
    BY <1>1, <2>1
<1>5. CASE CastStarts
  <2>1. /\ castTries' = castTries /\ stage # "PREPARING" /\ stage' # "PREPARING"
        /\ UNCHANGED <<sits, sitting>>
    BY <1>5 DEF CastStarts, Looks, InStage, Silent
  <2> QED
    BY <1>1, <2>1
<1>6. CASE SitsDown
  BY <1>1, <1>6 DEF SitsDown
<1>7. CASE StandsUp
  BY <1>1, <1>7 DEF StandsUp
<1>8. CASE NoSkill \/ PreparationFails \/ Prepare \/ TargetLostPreparing
           \/ Finished \/ TargetLost \/ GiveUp \/ CastingFails
           \/ StopAtHit \/ GiveUpAtHit \/ CastTimesOut
  <2>1. UNCHANGED <<castTries, stage, sits, sitting>>
    BY <1>8 DEF NoSkill, PreparationFails, Prepare, TargetLostPreparing, Finished,
                TargetLost, GiveUp, CastingFails, StopAtHit, GiveUpAtHit, CastTimesOut,
                Fails, Silent
  <2> QED
    BY <2>1
<1>9. CASE Activate \/ InterruptTask \/ ResumeTask \/ StopTask
  <2>1. UNCHANGED <<castTries, stage, sits, sitting>>
    BY <1>9 DEF Activate, InterruptTask, ResumeTask, StopTask, Call
  <2> QED
    BY <2>1
<1>10. CASE StartsCasting \/ UsesSkill \/ Refuses \/ Loses \/ Interrupted \/ UsesAnother
  <2>1. UNCHANGED <<castTries, stage, sits, sitting>>
    BY <1>10 DEF StartsCasting, UsesSkill, Refuses, Loses, Interrupted, UsesAnother,
                 Server
  <2> QED
    BY <2>1
<1> QED
  BY <1>2, <1>3, <1>4, <1>5, <1>6, <1>7, <1>8, <1>9, <1>10
     DEF Next, World, Iterate, Preparation, Casting

LEMMA NextUse ==
    ASSUME UseInv, Next
    PROVE  UseInv'
<1> USE DEF UseInv, others, Event
<1>1. CASE Finished
  BY <1>1 DEF Finished, Fails, End
<1>2. CASE UsesSkill
  BY <1>2 DEF UsesSkill, Server
<1>3. CASE CastStarts \/ Recast \/ PrepareAgain \/ CastAfterHit \/ PreparationDone
           \/ Prepare
  <2>1. seen' \subseteq seen /\ UNCHANGED <<outcome, used>>
    BY <1>3 DEF CastStarts, Recast, PrepareAgain, CastAfterHit, Cancelled,
                PreparationDone, Prepare, GoOn
  <2> QED
    BY <2>1
<1>4. CASE NoSkill \/ PreparationFails \/ TargetLostPreparing \/ TargetLost \/ GiveUp
           \/ CastingFails \/ StopAtHit \/ GiveUpAtHit \/ CastTimesOut
  <2>1. seen' \subseteq seen /\ outcome' # "success" /\ UNCHANGED used
    BY <1>4 DEF NoSkill, PreparationFails, TargetLostPreparing, TargetLost, GiveUp,
                CastingFails, Cancelled, StopAtHit, GiveUpAtHit, CastTimesOut, Fails,
                End
  <2> QED
    BY <2>1
<1>5. CASE Activate \/ InterruptTask \/ ResumeTask \/ StopTask
  BY <1>5 DEF Activate, InterruptTask, ResumeTask, StopTask, Call, server
<1>6. CASE StartsCasting \/ Refuses \/ Loses \/ Interrupted \/ UsesAnother
  BY <1>6 DEF StartsCasting, Refuses, Loses, Interrupted, UsesAnother, Server
<1>7. CASE StandsUp \/ SitsDown
  BY <1>7 DEF StandsUp, SitsDown, server
<1> QED
  BY <1>1, <1>2, <1>3, <1>4, <1>5, <1>6, <1>7
     DEF Next, World, Iterate, Preparation, Casting

\* All but the task objects, which are Sound.
LEMMA NextTyped ==
    ASSUME TypeOK, Next, tasks' \in Objects
    PROVE  TypeOK'
<1> USE UseSkillAssumption DEF TypeOK
<1>1. CASE Iterate
  <2> USE DEF game, option, others, Silent
  <2>1. /\ castTries' \in {castTries, castTries + 1}
        /\ requests' \in {requests, requests + 1}
    BY <1>1 DEF Iterate, Preparation, Casting, NoSkill, PreparationDone,
         PreparationFails, Prepare, TargetLostPreparing, Finished, CastStarts,
         TargetLost, Recast, GiveUp, CastingFails, PrepareAgain, StopAtHit,
         CastAfterHit, GiveUpAtHit, CastTimesOut, Fails, CastSkill
  <2>2. /\ stage' \in {stage, "PREPARING", "WAITING_FOR_CAST_TO_START",
                       "WAITING_FOR_CAST_TO_FINISH"}
        /\ seen' \subseteq seen
        /\ standAsked' \in {standAsked, TRUE}
        /\ UNCHANGED <<option, sitting, sits, casting, used, interrupts>>
    BY <1>1 DEF Iterate, Preparation, Casting, NoSkill, PreparationDone,
         PreparationFails, Prepare, TargetLostPreparing, Finished, CastStarts,
         TargetLost, Recast, GiveUp, CastingFails, PrepareAgain, StopAtHit,
         CastAfterHit, GiveUpAtHit, CastTimesOut, Fails, Cancelled
  <2>3. outcome' \in Errors \union {outcome, "success"}
    BY <1>1 DEF Iterate, Preparation, Casting, NoSkill, PreparationDone,
         PreparationFails, Prepare, TargetLostPreparing, Finished, CastStarts,
         TargetLost, Recast, GiveUp, CastingFails, PrepareAgain, StopAtHit,
         CastAfterHit, GiveUpAtHit, CastTimesOut, Fails, End, GoOn, Errors
  <2>4. castTries' \in Nat /\ requests' \in Nat
    BY <2>1
  <2>5. seen' \subseteq {"started", "finished", "cancelled", "error"}
    BY <2>2
  <2>6. standAsked' \in BOOLEAN
    BY <2>2
  <2>7. UNCHANGED <<stopWhenHit, basicSkill, sitting, sits, casting, used, interrupts>>
    BY <2>2
  <2>8. outcome' \in Errors \union {"none", "success"}
    BY <2>3
  <2>9. stage' \in {"PREPARING", "WAITING_FOR_CAST_TO_START",
                    "WAITING_FOR_CAST_TO_FINISH"}
    BY <2>2
  <2> QED
    BY <2>4, <2>5, <2>6, <2>7, <2>8, <2>9
<1>2. CASE Activate \/ InterruptTask \/ ResumeTask \/ StopTask
  <2>1. interrupts' \in 0..MaxInterrupts
    BY <1>2 DEF Activate, InterruptTask, ResumeTask, StopTask
  <2>2. UNCHANGED <<stage, castTries, seen, outcome, stopWhenHit, basicSkill, sitting,
                    standAsked, sits, requests, casting, used>>
    BY <1>2 DEF Activate, InterruptTask, ResumeTask, StopTask, Call, game, option,
                server
  <2> QED
    BY <2>1, <2>2
<1>3. CASE StartsCasting \/ UsesSkill \/ Refuses \/ Loses \/ Interrupted \/ UsesAnother
  <2>1. seen' \in {seen} \union {seen \union {e} :
                    e \in {"started", "finished", "cancelled", "error"}}
    BY <1>3 DEF StartsCasting, UsesSkill, Refuses, Loses, Interrupted, UsesAnother, Event
  <2>2. /\ requests' \in {requests, requests - 1}
        /\ requests' # requests => requests > 0
        /\ casting' \in {casting, "nothing", "skill"}
        /\ used' \in {used, TRUE}
    BY <1>3 DEF StartsCasting, UsesSkill, Refuses, Loses, Interrupted, UsesAnother, LookAt
  <2>3. UNCHANGED <<stage, castTries, outcome, interrupts, stopWhenHit, basicSkill,
                    sitting, standAsked, sits>>
    BY <1>3, SMTT(30) DEF StartsCasting, UsesSkill, Refuses, Loses, Interrupted, UsesAnother,
                Server, game, option
  <2>4. requests' \in Nat
    BY <2>2
  <2>5. used' \in BOOLEAN
    BY <2>2
  <2>6. seen' \subseteq {"started", "finished", "cancelled", "error"}
    BY <2>1
  <2>7. casting' \in {"nothing", "skill", "another"}
    BY <2>2
  <2> QED
    BY <2>3, <2>4, <2>5, <2>6, <2>7
<1>4. CASE StandsUp \/ SitsDown
  <2>1. sits' \in 0..MaxSits
    BY <1>4 DEF StandsUp, SitsDown
  <2>2. sitting' \in BOOLEAN /\ standAsked' \in BOOLEAN
    BY <1>4 DEF StandsUp, SitsDown
  <2>3. UNCHANGED <<stage, castTries, seen, outcome, interrupts, stopWhenHit,
                    basicSkill, requests, casting, used>>
    BY <1>4 DEF StandsUp, SitsDown, server, option
  <2> QED
    BY <2>1, <2>2, <2>3
<1> QED
  BY <1>1, <1>2, <1>3, <1>4 DEF Next, World

-----------------------------------------------------------------------------
(* Theorems.                                                                 *)

LEMMA InitInductive == Init => Inductive
<1> SUFFICES ASSUME Init PROVE Inductive
  OBVIOUS
<1>1. Sound(tasks, stage)
  BY SoundStart DEF Init
<1>2. TypeOK
  <2>1. tasks \in Objects
    BY <1>1 DEF Sound
  <2>2. sits \in 0..MaxSits /\ interrupts \in 0..MaxInterrupts
    BY UseSkillAssumption DEF Init
  <2>3. castTries \in Nat /\ requests \in Nat
    BY DEF Init
  <2> QED
    BY <2>1, <2>2, <2>3 DEF Init, TypeOK
<1>3. TriesInv /\ UseInv
  BY UseSkillAssumption DEF Init, TriesInv, UseInv
<1> QED
  BY <1>1, <1>2, <1>3 DEF Inductive

LEMMA NextInductive == Inductive /\ [Next]_vars => Inductive'
<1> SUFFICES ASSUME Inductive, [Next]_vars PROVE Inductive'
  OBVIOUS
<1>1. CASE Next
  <2>1. Sound(tasks', stage') /\ tasks' \in Objects
    BY <1>1, NextSound DEF Inductive, Sound
  <2> QED
    BY <1>1, <2>1, NextTyped, NextTries, NextUse DEF Inductive
<1>2. CASE UNCHANGED vars
  BY <1>2 DEF Inductive, TypeOK, TriesInv, UseInv, Sound, vars, option, game, server
<1> QED
  BY <1>1, <1>2

\* What the theorems below follow from.
THEOREM InductiveHolds == Spec => []Inductive
  BY InitInductive, NextInductive, PTL DEF Spec

\* The task, its server and its tasks keep their types (Task/UseSkill.pm).
THEOREM TypeCorrect == Spec => []TypeOK
<1>1. Inductive => TypeOK
  BY DEF Inductive
<1> QED
  BY <1>1, InductiveHolds, PTL

\* The subtasks have the status the manager gave the report
\* (Task/WithSubtask.pm, Task/ErrorReport.pm).
THEOREM StatusFollowsHolds == Spec => []StatusFollows
<1>1. Inductive => StatusFollows
  <2> SUFFICES ASSUME Inductive PROVE StatusFollows
    OBVIOUS
  <2>1. CASE Over(tasks)
    <3>1. Reached(tasks, "report") = {"report"}
      BY <2>1, ReachedIs DEF Inductive, Sound
    <3> QED
      BY <3>1 DEF StatusFollows
  <2>2. CASE ~Over(tasks)
    BY <2>2 DEF Inductive, Sound, Follows, StatusFollows, Is
  <2> QED
    BY <2>1, <2>2
<1> QED
  BY <1>1, InductiveHolds, PTL

\* The report's list is the one of whoever acts (Task/WithSubtask.pm).
THEOREM ListFollowsHolds == Spec => []ListFollows
<1>1. Inductive => ListFollows
  BY DEF Inductive, Sound, Over, Alone, Stacked, ListFollows, Ended, Is
<1> QED
  BY <1>1, InductiveHolds, PTL

\* There are at most MaxTries casts between two preparations
\* (Task/UseSkill.pm).
THEOREM TriesBoundedHolds == Spec => []TriesBounded
<1>1. Inductive => TriesBounded
  BY DEF Inductive, TriesInv, TriesBounded
<1> QED
  BY <1>1, InductiveHolds, PTL

\* Success is reported of a skill that was used (Task/UseSkill.pm).
THEOREM SuccessIsUseHolds == Spec => []SuccessIsUse
<1>1. Inductive => SuccessIsUse
  BY DEF Inductive, UseInv, SuccessIsUse
<1> QED
  BY <1>1, InductiveHolds, PTL

\* Four tasks wrapped in one another are one task, as Task.pm has it: no call
\* or list change comes at a time its status does not allow.
THEOREM TaskHolds == Spec => TaskSpec
<1>1. Init => AsTask!Init
  <2> SUFFICES ASSUME Init PROVE AsTask!Init
    OBVIOUS
  <2>1. tasks \in Objects
    BY InitInductive DEF Inductive, TypeOK
  <2>2. tasks.status["report"] = "INACTIVE"
    <3>1. New \in Objects
      BY DEF New, Objects, Own
    <3>2. tasks.status = New.status
      BY <3>1, FollowIs DEF Init
    <3> QED
      BY <3>2 DEF New
  <2> QED
    BY <2>1, <2>2 DEF AsTask!Init, Objects
<1>2. Inductive /\ [Next]_vars =>
        [AsTask!Next]_<<tasks.status["report"], tasks.mutexes["report"]>>
  BY NextSound DEF Inductive, vars
<1> QED
  BY <1>1, <1>2, InductiveHolds, PTL DEF Spec, TaskSpec, AsTask!Spec
=============================================================================
