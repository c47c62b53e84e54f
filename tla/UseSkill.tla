------------------------------ MODULE UseSkill ------------------------------
(***************************************************************************)
(* Task/UseSkill.pm as the commands ss, sl, sp and sm use it (Commands.pm):*)
(* wrapped in a Task::ErrorReport for the task manager, preparing with a   *)
(* Task::Chained of one Task::SitStand, and told by the hooks on the       *)
(* server's packets how its casts go.                                      *)
(*                                                                         *)
(* A call of iterate() is one step.  What it finds in the game (a target   *)
(* that is off screen, a skill that is lost) and whether a time-out has    *)
(* passed is left open.                                                    *)
(***************************************************************************)
EXTENDS WithSubtask

CONSTANTS
    MaxTries,       \* DEFAULT_MAX_CAST_TRIES
    MaxSits,        \* bound: how often the character sits down
    MaxInterrupts   \* bound: how often the manager interrupts the task

ASSUME UseSkillAssumption ==
    /\ MaxTries \in Nat \ {0}
    /\ MaxSits \in Nat
    /\ MaxInterrupts \in Nat

VARIABLES
    tasks,          \* the task objects
    stage,          \* the skill task's own state
    castTries,
    seen,           \* castingStarted, -Finished, -Cancelled, -Error
    stopWhenHit,    \* an option of the task
    outcome,        \* of the skill task
    basicSkill,     \* the character has the skill it takes to stand up
    sitting,
    standAsked,     \* sendStand() on its way
    requests,       \* casts on their way to the server or not looked at yet
    casting,        \* what the server has the character cast
    used,           \* it has used the skill since the task was made
    sits, interrupts

option == <<stopWhenHit, basicSkill>>
game == <<sitting, standAsked, sits>>
server == <<requests, casting, used>>
others == <<option, casting, used, interrupts>>
vars == <<tasks, stage, castTries, seen, outcome, interrupts, option, game, server>>

Own == {"movement", "skill"}
Errors == {"NO_SKILL", "PREPARATION_FAILED", "TARGET_LOST", "MAX_TRIES",
           "CASTING_CANCELLED", "CASTING_FAILED", "CASTING_TIMEOUT"}

TypeOK ==
    /\ tasks \in Objects
    /\ stage \in {"PREPARING", "WAITING_FOR_CAST_TO_START",
                  "WAITING_FOR_CAST_TO_FINISH"}
    /\ castTries \in Nat
    /\ seen \subseteq {"started", "finished", "cancelled", "error"}
    /\ stopWhenHit \in BOOLEAN /\ basicSkill \in BOOLEAN
    /\ outcome \in Errors \union {"none", "success"}
    /\ sitting \in BOOLEAN /\ standAsked \in BOOLEAN
    /\ requests \in Nat
    /\ casting \in {"nothing", "skill", "another"}
    /\ used \in BOOLEAN
    /\ sits \in 0..MaxSits /\ interrupts \in 0..MaxInterrupts

\* The constructors.  ErrorReport's sets its subtask, and so activates it.
New == [status  |-> [t \in Task |-> IF t = "skill" THEN "RUNNING" ELSE "INACTIVE"],
        mutexes |-> [report |-> {}, skill |-> Own,
                     chain |-> {"movement"}, stand |-> {"movement"}],
        sub     |-> {},
        listens |-> {},
        saved   |-> [w \in Wrapper |-> {}]]

\* An earlier task may have left a cast behind.
Init ==
    /\ tasks = Follow(New, "report")
    /\ stage = "PREPARING" /\ castTries = 0 /\ seen = {} /\ outcome = "none"
    /\ stopWhenHit \in BOOLEAN /\ basicSkill \in BOOLEAN
    /\ sitting \in BOOLEAN /\ standAsked = FALSE /\ sits = 0
    /\ requests \in 0..1 /\ casting \in {"nothing", "skill", "another"}
    /\ used = FALSE /\ interrupts = 0

Is(s) == tasks.status["report"] = s

---------------------------------------------------------------------------
(* iterate().                                                              *)

\* The skill task finishes: so does the report.
End(o, result) ==
    /\ tasks' = Complete(SetStatus(o, {"skill"}, "DONE"), "report")
    /\ outcome' = result

GoOn(o) == tasks' = o /\ UNCHANGED outcome

\* Mutant: counts down.
CastSkillDown == castTries' = castTries - 1 /\ requests' = requests + 1

CastSkill == castTries' = castTries + 1 /\ requests' = requests + 1

Silent == UNCHANGED <<castTries, requests>>

\* The character has no such skill (any more).
NoSkill ==
    /\ Is("RUNNING")
    /\ End(tasks, "NO_SKILL")
    /\ Silent
    /\ UNCHANGED <<stage, seen, game, others>>

\* With the preparation tasks, new ones unless they are there; each is
\* activated as it becomes a subtask.
Preparing ==
    IF "skill" \in tasks.sub THEN tasks
    ELSE Follow(Follow(SetStatus(tasks, {"chain", "stand"}, "RUNNING"), "chain"),
                "skill")

\* SitStand has ended, and its wrappers with it.
Prepared == Drop(Complete(SetStatus(Preparing, {"stand"}, "DONE"), "chain"), "skill")

InStage(s) == Is("RUNNING") /\ stage = s

\* SitStand finds the character standing: the skill is cast.
PreparationDone ==
    /\ InStage("PREPARING")
    /\ ~sitting
    /\ GoOn(Prepared)
    /\ stage' = "WAITING_FOR_CAST_TO_START"
    /\ CastSkill
    /\ UNCHANGED <<seen, game, others>>

\* It cannot stand up.
PreparationFails ==
    /\ InStage("PREPARING")
    /\ sitting /\ ~basicSkill
    /\ End(Prepared, "PREPARATION_FAILED")
    /\ Silent
    /\ UNCHANGED <<stage, seen, game, others>>

\* It asks for it, once or again, or waits.
Prepare ==
    /\ InStage("PREPARING")
    /\ sitting /\ basicSkill
    /\ GoOn(Preparing)
    /\ standAsked' \in {standAsked, TRUE}
    /\ Silent
    /\ UNCHANGED <<stage, seen, sitting, sits, others>>

\* Then the target is found to be lost, and the preparation is stopped.
TargetLostPreparing ==
    /\ InStage("PREPARING")
    /\ sitting /\ basicSkill
    /\ End(Stop(Preparing, "chain"), "TARGET_LOST")
    /\ standAsked' \in {standAsked, TRUE}
    /\ Silent
    /\ UNCHANGED <<stage, seen, sitting, sits, others>>

\* In the other stages the tests have an order: flag f is looked at if none
\* of the earlier ones is set.
Looks(s, earlier) == InStage(s) /\ seen \intersect earlier = {}

Fails(e) == End(tasks, e) /\ Silent /\ UNCHANGED <<stage, game, others>>

\* Mutant: a cast that has started is taken for a success.
FinishedAtStart ==
    /\ InStage("WAITING_FOR_CAST_TO_START") \/ InStage("WAITING_FOR_CAST_TO_FINISH")
    /\ seen \intersect {"started", "finished"} # {}
    /\ Fails("success")
    /\ UNCHANGED seen

Finished ==
    /\ InStage("WAITING_FOR_CAST_TO_START") \/ InStage("WAITING_FOR_CAST_TO_FINISH")
    /\ "finished" \in seen
    /\ Fails("success")
    /\ UNCHANGED seen

CastStarts ==
    /\ Looks("WAITING_FOR_CAST_TO_START", {"finished"})
    /\ "started" \in seen
    /\ seen' = seen \ {"started"}
    /\ stage' = "WAITING_FOR_CAST_TO_FINISH"
    /\ GoOn(tasks) /\ Silent
    /\ UNCHANGED <<game, others>>

NotStarted == Looks("WAITING_FOR_CAST_TO_START", {"finished", "started"})

TargetLost == NotStarted /\ Fails("TARGET_LOST") /\ UNCHANGED seen

\* Nothing happened within a second.  A mutant tries once too often.
RecastOnceMore ==
    /\ NotStarted
    /\ castTries <= MaxTries
    /\ CastSkill
    /\ GoOn(tasks)
    /\ UNCHANGED <<stage, seen, game, others>>

Recast ==
    /\ NotStarted
    /\ castTries < MaxTries
    /\ CastSkill
    /\ GoOn(tasks)
    /\ UNCHANGED <<stage, seen, game, others>>

\* Mutant: for equality only, which a further preparation may jump over.
GiveUpAtEqual ==
    NotStarted /\ castTries = MaxTries /\ Fails("MAX_TRIES") /\ UNCHANGED seen

GiveUp == NotStarted /\ castTries >= MaxTries /\ Fails("MAX_TRIES") /\ UNCHANGED seen

CastingFails ==
    /\ NotStarted \/ Looks("WAITING_FOR_CAST_TO_FINISH", {"finished", "cancelled"})
    /\ "error" \in seen
    /\ Fails("CASTING_FAILED")
    /\ UNCHANGED seen

\* Preparation conditions violated.
PrepareAgain ==
    /\ NotStarted
    /\ "error" \notin seen
    /\ sitting
    /\ stage' = "PREPARING"
    /\ GoOn(tasks) /\ Silent
    /\ UNCHANGED <<seen, game, others>>

Cancelled ==
    /\ Looks("WAITING_FOR_CAST_TO_FINISH", {"finished"})
    /\ "cancelled" \in seen
    /\ seen' = seen \ {"cancelled"}

StopAtHit == Cancelled /\ stopWhenHit /\ Fails("CASTING_CANCELLED")

CastAfterHit ==
    /\ Cancelled
    /\ ~stopWhenHit /\ castTries < MaxTries
    /\ CastSkill
    /\ stage' = "WAITING_FOR_CAST_TO_START"
    /\ GoOn(tasks)
    /\ UNCHANGED <<game, others>>

GiveUpAtHit ==
    Cancelled /\ ~stopWhenHit /\ castTries >= MaxTries /\ Fails("MAX_TRIES")

CastTimesOut ==
    /\ Looks("WAITING_FOR_CAST_TO_FINISH", {"finished", "cancelled", "error"})
    /\ Fails("CASTING_TIMEOUT")
    /\ UNCHANGED seen

Preparation == PreparationDone \/ PreparationFails \/ Prepare

Casting ==
    \/ Finished \/ CastStarts \/ Recast \/ GiveUp \/ CastingFails \/ PrepareAgain
    \/ StopAtHit \/ CastAfterHit \/ GiveUpAtHit \/ CastTimesOut

Iterate == Preparation \/ Casting \/ NoSkill \/ TargetLostPreparing \/ TargetLost

---------------------------------------------------------------------------
(* The other calls of the task manager, and stop() by anybody.             *)

Call(from, o) ==
    /\ tasks.status["report"] \in from
    /\ tasks' = o
    /\ UNCHANGED <<stage, castTries, seen, outcome, game, option, server>>

Activate ==
    /\ Call({"INACTIVE"}, SetStatus(tasks, {"report"}, "RUNNING"))
    /\ UNCHANGED interrupts

InterruptTask ==
    /\ interrupts < MaxInterrupts
    /\ Call({"RUNNING"}, Interrupt(tasks, "report"))
    /\ interrupts' = interrupts + 1

ResumeTask ==
    /\ Call({"INTERRUPTED"}, Resume(tasks, "report"))
    /\ UNCHANGED interrupts

StopTask ==
    /\ Call({"INACTIVE", "RUNNING", "INTERRUPTED"}, Stop(tasks, "report"))
    /\ UNCHANGED interrupts

---------------------------------------------------------------------------
(* The server and what it tells the client.  A hook notes an event if the  *)
(* task is RUNNING; only cancellations do not say of which skill they are. *)

Event(e) == seen' = IF tasks.status["skill"] = "RUNNING" THEN seen \union {e} ELSE seen

Server == UNCHANGED <<tasks, stage, castTries, outcome, interrupts, option, game>>

LookAt == requests > 0 /\ requests' = requests - 1

StartsCasting ==
    /\ Server /\ LookAt
    /\ casting = "nothing" /\ casting' = "skill"
    /\ Event("started")
    /\ UNCHANGED used

\* After casting it, or at once.
UsesSkill ==
    /\ Server
    /\ \/ casting = "skill" /\ casting' = "nothing" /\ UNCHANGED requests
       \/ LookAt /\ UNCHANGED casting
    /\ Event("finished")
    /\ used' = TRUE

Refuses ==
    /\ Server /\ LookAt
    /\ Event("error")
    /\ UNCHANGED <<casting, used>>

Loses ==
    /\ Server /\ LookAt
    /\ UNCHANGED <<seen, casting, used>>

Interrupted ==
    /\ Server
    /\ casting # "nothing" /\ casting' = "nothing"
    /\ Event("cancelled")
    /\ UNCHANGED <<requests, used>>

UsesAnother ==
    /\ Server
    /\ casting = "another" /\ casting' = "nothing"
    /\ UNCHANGED <<seen, requests, used>>

StandsUp ==
    /\ standAsked /\ standAsked' = FALSE
    /\ sitting' = FALSE
    /\ UNCHANGED <<tasks, stage, castTries, seen, outcome, interrupts, option,
                   server, sits>>

\* The player or another part of the program has the character sit.
SitsDown ==
    /\ ~sitting /\ sitting' = TRUE
    /\ sits < MaxSits /\ sits' = sits + 1
    /\ UNCHANGED <<tasks, stage, castTries, seen, outcome, interrupts, option,
                   server, standAsked>>

Ended == Is("DONE") \/ Is("STOPPED")

\* What happens after the task has ended is not followed.
World ==
  /\ ~Ended
  /\ \/ StartsCasting \/ UsesSkill \/ Refuses \/ Loses \/ Interrupted \/ UsesAnother
     \/ StandsUp \/ SitsDown

---------------------------------------------------------------------------

Next == Iterate \/ Activate \/ InterruptTask \/ ResumeTask \/ StopTask \/ World

Spec == Init /\ [][Next]_vars

\* The main loop calls iterate(), and the server answers a request to stand.
\* A target or a skill need not be lost.
FairSpec ==
    /\ Spec
    /\ WF_vars(Preparation \/ Casting)
    /\ WF_vars(StandsUp)

---------------------------------------------------------------------------
(* Properties.                                                             *)

\* Whoever would act has the status the manager gave the report: a subtask
\* does not go on when its wrapper is interrupted or stopped.  Before the
\* report is activated its subtask is RUNNING already.
StatusFollows ==
    \A t \in Reached(tasks, "report") \ {"report"} :
        tasks.status[t] = IF Is("INACTIVE") THEN "RUNNING" ELSE tasks.status["report"]

\* The manager knows the report's mutex list only: it is movement while the
\* character gets up, and movement and skill for as long as a cast is under
\* way, through every change of the lists of the tasks below.
ListFollows ==
    ~Ended => tasks.mutexes["report"] = IF "skill" \in tasks.sub THEN {"movement"}
                                        ELSE Own

\* The four tasks together are a task as Task.pm has it.
AsTask == INSTANCE OpenTask WITH status <- tasks.status["report"],
                                 mutexes <- tasks.mutexes["report"]

TaskSpec == AsTask!Spec

\* "The maximum number of times to try to re-cast the skill before we give
\* up" (UseSkill.pm:117) holds between two preparations: each time the
\* character sat down in between allows for one more.
TriesBounded == castTries <= MaxTries + sits

\* Success is reported of a skill that the server did use.
SuccessIsUse == outcome = "success" => used

\* A task that is left running ends, though every answer may be lost.
Ends == ~<>[]Is("RUNNING")
============================================================================
