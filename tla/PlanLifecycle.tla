----------------------------- MODULE PlanLifecycle -----------------------------
(***************************************************************************)
(* The plan and the task of one session: DefaultContextManager in memory,  *)
(* ContextRepository on disk.                                              *)
(*                                                                         *)
(* complete_current_step marks the current step, saves the task, activates *)
(* the next step and saves the plan.  A save of the task writes its row    *)
(* and commits; a save of the plan updates the plan's row, deletes its    *)
(* steps and inserts them one by one before it commits.  All repositories  *)
(* share one connection, on which nothing is ever rolled back: a commit by *)
(* anybody makes durable whatever statements have run, also those of a     *)
(* save that is under way or has raised.  The process may stop between any *)
(* two of them, and each may raise (the database is busy, the disk is      *)
(* full); the exception leaves memory as it is at that moment.             *)
(***************************************************************************)
EXTENDS Naturals, Sequences, FiniteSets

CONSTANTS
    PlanLengths,    \* lengths of the plans the planner may write
    MaxPlans,       \* bound: plans created
    MaxFaults,      \* bound: saves that raise
    None            \* no plan, no task

StepStatus == {"pending", "in_progress", "completed"}
Plan == [id : Nat, status : {"in_progress", "completed"}, steps : Seq(StepStatus)]
Task == {"active", "blocked", "completed"}

ASSUME PlanAssumptions ==
    /\ PlanLengths \subseteq Nat \ {0}
    /\ MaxPlans \in Nat /\ MaxFaults \in Nat
    /\ None \notin Plan \cup Task

VARIABLES
    plan,       \* DefaultContextManager.plan
    task,       \* status of DefaultContextManager.task
    signaled,   \* _plan_complete_signaled_this_turn
    fresh,      \* the plan that /plan refresh is saving
    phase,      \* what the context manager is in the middle of
    written,    \* statements run of the plan's save under way
    connPlan,   \* as the connection sees it: the session's latest plan with its steps
    connTask,   \* status of its active task
    connKept,   \* the row of the plan in memory, when a refresh left a later one
    dbPlan, dbTask, dbKept,     \* the same, committed
    created,    \* plans created so far (plan ids are new)
    faults,     \* saves that raised so far
    stalled,    \* history: a save raised between completing a step and activating the next
    half, torn, \* history: a part of a plan's save is in connPlan, in dbPlan
    cut         \* history: the plan in memory was loaded from a torn row

memory  == <<plan, task, signaled, fresh>>
conn    == <<connPlan, connTask, connKept, half>>
disk    == <<dbPlan, dbTask, dbKept, torn>>
counts  == <<created, faults, stalled, cut>>
planVars == <<plan, task, signaled, fresh, phase, written, connPlan, connTask, connKept, half,
              dbPlan, dbTask, dbKept, torn, created, faults, stalled, cut>>

\* The saves of a plan: by the planner, by _create_plan, for its heuristic plan
\* or a kept one, by the calls that complete a step, by /plan refresh.
PlanSaves == {"saveFirst", "saveNew", "saveFallback", "savePlan", "refresh"}

Phase == PlanSaves \cup
         {"down", "ready",              \* not loaded; no call in progress
          "saveBegin", "needPlan",      \* in begin_run
          "saveTask", "activate",       \* in complete_current_step
          "saveTaskDone"}               \* in _mark_plan_completed

\* Plan.create: the first step is in progress, the others are pending.
NewPlan(n) ==
    [id     |-> created + 1,
     status |-> "in_progress",
     steps  |-> [i \in 1..n |-> IF i = 1 THEN "in_progress" ELSE "pending"]]

StepsOf(p, s) == {i \in 1..Len(p.steps) : p.steps[i] = s}
Done(p)       == Cardinality(StepsOf(p, "completed"))
AllDone(p)    == \A i \in 1..Len(p.steps) : p.steps[i] = "completed"
IsOpen(p)     == p # None /\ p.status # "completed"

\* plan_has_open_steps: what the agent loop asks before it accepts an answer.
HasOpenSteps(p) == IsOpen(p) /\ ~AllDone(p)

\* Mutant: the steps are not sorted before the first one is taken.
IsAny(p, s, i) == i \in StepsOf(p, s)

IsFirst(p, s, i) == /\ i \in StepsOf(p, s)
                    /\ \A j \in StepsOf(p, s) : i <= j

Init ==
    /\ plan = None /\ task = None /\ signaled = FALSE /\ fresh = None
    /\ phase = "down" /\ written = 0
    /\ connPlan = None /\ connTask = None /\ connKept = None /\ half = FALSE
    /\ dbPlan = None /\ dbTask = None /\ dbKept = None /\ torn = FALSE
    /\ created = 0 /\ faults = 0 /\ stalled = FALSE /\ cut = FALSE

-------------------------------------------------------------------------------
(* The connection.                                                         *)

\* Everything that has run on the connection becomes durable.
Commit == dbPlan' = connPlan' /\ dbTask' = connTask' /\ dbKept' = connKept' /\ torn' = half'

\* SQLite drops what is not committed, as it does after some errors.
RolledBack == connPlan' = dbPlan /\ connTask' = dbTask /\ connKept' = dbKept /\ half' = torn

\* Another repository, or another thread on the same connection, commits; there
\* is no other thread in the CLI, where /plan refresh runs.
OthersCommit ==
    /\ phase \notin {"down", "refresh"} /\ conn # disk
    /\ UNCHANGED <<memory, phase, written, conn, counts>>
    /\ Commit

\* upsert_task, and its exception: the statement may have run, or all that was
\* not committed is gone.
TaskSaved(t) == connTask' = t /\ UNCHANGED <<connPlan, connKept, half>> /\ Commit

MayFail == faults < MaxFaults
Fault   == MayFail /\ faults' = faults + 1 /\ UNCHANGED <<disk, created, cut>>

TaskRaised(t) ==
    /\ Fault
    /\ \/ connTask' \in {connTask, t} /\ UNCHANGED <<connPlan, connKept, half>>
       \/ RolledBack

-------------------------------------------------------------------------------
(* Saving.                                                                 *)

\* Mutant: the plan is saved before the next step is activated.
AfterTaskSaveEarly == [saveBegin |-> "needPlan", saveTask |-> "savePlan",
                       saveTaskDone |-> "savePlan"]

\* The phase that follows a task save when it succeeds.
AfterTaskSave == [saveBegin    |-> "needPlan",
                  saveTask     |-> "activate",
                  saveTaskDone |-> "savePlan"]

SaveTask ==
    /\ phase \in DOMAIN AfterTaskSave
    /\ TaskSaved(task)
    /\ phase' = AfterTaskSave[phase]
    /\ UNCHANGED <<memory, written, counts>>

\* The exception leaves the call: run fails, or the tool reports failure.
SaveTaskFails ==
    /\ phase \in DOMAIN AfterTaskSave
    /\ TaskRaised(task)
    /\ stalled' = (stalled \/ phase = "saveTask")
    /\ phase' = "ready"
    /\ UNCHANGED <<memory, written>>

Saved == IF phase = "refresh" THEN fresh ELSE plan

\* The plan with its first n steps, and the row a plan has on the connection.
Inserted(p, n) == [p EXCEPT !.steps = SubSeq(p.steps, 1, n)]
Is(row, p)     == row # None /\ row.id = p.id
RowOf(p)       == IF p # None /\ Is(connPlan, p) THEN connPlan
                  ELSE IF p # None /\ Is(connKept, p) THEN connKept ELSE None

\* What the first statement makes the latest plan, with the steps it has.
Header(p) == IF RowOf(p) = None THEN Inserted(p, 0) ELSE [RowOf(p) EXCEPT !.status = p.status]

\* One statement of save_plan: the plan's row, the DELETE of its steps, and an
\* INSERT for each.
PlanStatement ==
    /\ phase \in PlanSaves /\ written < Len(Saved.steps) + 2
    /\ written' = written + 1
    /\ connPlan' = IF written = 0 THEN Header(Saved) ELSE Inserted(Saved, written - 1)
    /\ connKept' = IF phase # "refresh" THEN None
                   ELSE IF written = 0 THEN RowOf(plan) ELSE connKept
    /\ half' = IF connPlan' = connPlan THEN half
               ELSE connPlan' # Saved \/ (cut /\ phase # "refresh")
    /\ UNCHANGED <<memory, phase, connTask, disk, counts>>

AllWritten == phase \in PlanSaves /\ written = Len(Saved.steps) + 2

\* Its own commit, and its exception at any of the statements.
PlanCommitted == AllWritten /\ written' = 0 /\ UNCHANGED conn /\ Commit
PlanRaised    == Fault /\ written' = 0 /\ (UNCHANGED conn \/ RolledBack)

SavePlan ==
    /\ phase = "savePlan"
    /\ PlanCommitted
    /\ phase' = "ready"
    /\ UNCHANGED <<memory, counts>>

SavePlanFails ==
    /\ phase = "savePlan"
    /\ PlanRaised
    /\ phase' = "ready"
    /\ UNCHANGED <<memory, stalled>>

-------------------------------------------------------------------------------
(* begin_run.                                                              *)

\* A session without a task gets one; a long new goal reactivates the task; a
\* short or repeated goal leaves the task as it is, completed or not.
BeginRun(newGoal) ==
    /\ phase = "ready"
    /\ IF task = None \/ newGoal
       THEN task' = "active" /\ phase' = "saveBegin"
       ELSE task' = task /\ phase' = "needPlan"
    /\ UNCHANGED <<plan, signaled, fresh, written, conn, disk, counts>>

\* An unfinished plan is reused, whatever the goal.  One that /plan refresh made
\* in a session without a plan belongs to no run yet and is saved again as it
\* is; the model leaves out whose a plan is.
KeepPlan ==
    /\ phase = "needPlan" /\ IsOpen(plan)
    /\ \/ phase' = "ready"
       \/ phase' = "saveFallback" /\ connPlan = plan /\ ~stalled
    /\ UNCHANGED <<memory, written, conn, disk, counts>>

\* A plan the planner's LLM wrote is saved by the planner, then once more like
\* every other by _save_plan_obj, which puts it in memory first.
CreatePlan(n) ==
    /\ phase = "needPlan" /\ ~IsOpen(plan)
    /\ created < MaxPlans
    /\ plan' = NewPlan(n)
    /\ created' = created + 1
    /\ stalled' = FALSE /\ cut' = FALSE
    /\ phase' \in {"saveFirst", "saveNew"}
    /\ UNCHANGED <<task, signaled, fresh, written, conn, disk, faults>>

SaveNewPlan ==
    /\ phase \in {"saveFirst", "saveNew", "saveFallback"}
    /\ PlanCommitted
    /\ phase' = IF phase = "saveFirst" THEN "saveNew" ELSE "ready"
    /\ UNCHANGED <<memory, counts>>

\* The exception is swallowed and the heuristic plan takes over.
SaveNewFails(n) ==
    /\ phase \in {"saveFirst", "saveNew"}
    /\ created < MaxPlans
    /\ MayFail /\ faults' = faults + 1
    /\ plan' = NewPlan(n)
    /\ created' = created + 1
    /\ written' = 0 /\ (UNCHANGED conn \/ RolledBack)
    /\ phase' = "saveFallback"
    /\ UNCHANGED <<task, signaled, fresh, disk, stalled, cut>>

\* The fallback's own exception leaves begin_run; the plan stays in memory.
SaveFallbackFails ==
    /\ phase = "saveFallback"
    /\ PlanRaised
    /\ phase' = "ready"
    /\ UNCHANGED <<memory, stalled>>

-------------------------------------------------------------------------------
(* complete_current_step.                                                  *)

BeginTurn ==
    /\ phase = "ready"
    /\ signaled' = FALSE
    /\ UNCHANGED <<plan, task, fresh, phase, written, conn, disk, counts>>

\* Mutant: the limit of one completion per turn is not checked.
MayCompleteAgain(p) == IsOpen(p)

MayComplete(p) == IsOpen(p) /\ ~signaled

\* Anything else ("no active plan", "once per turn", "no in_progress plan
\* step") is refused and changes nothing.
CompleteStep ==
    /\ phase = "ready"
    /\ MayComplete(plan)
    /\ \E i \in 1..Len(plan.steps) :
          /\ IsFirst(plan, "in_progress", i)
          /\ plan' = [plan EXCEPT !.steps[i] = "completed"]
    /\ signaled' = TRUE
    /\ phase' = IF task = None THEN "activate" ELSE "saveTask"
    /\ UNCHANGED <<task, fresh, written, conn, disk, counts>>

\* Mutant: the task is not saved when its plan completes.
MarkPlanCompletedUnsaved ==
    /\ plan' = [plan EXCEPT !.status = "completed"]
    /\ task' = IF task = None THEN None ELSE "completed"
    /\ phase' = "savePlan"

\* _mark_plan_completed, in memory.
MarkPlanCompleted ==
    /\ plan' = [plan EXCEPT !.status = "completed"]
    /\ task' = IF task = None THEN None ELSE "completed"
    /\ phase' = IF task = None THEN "savePlan" ELSE "saveTaskDone"

\* Mutant: the plan is saved when it is complete only.
ActivateUnsaved ==
    /\ phase = "activate"
    /\ \/ \E i \in 1..Len(plan.steps) :
             /\ IsFirst(plan, "pending", i)
             /\ plan' = [plan EXCEPT !.steps[i] = "in_progress"]
             /\ phase' = "ready"
             /\ UNCHANGED task
       \/ StepsOf(plan, "pending") = {} /\ AllDone(plan) /\ MarkPlanCompleted
    /\ UNCHANGED <<signaled, fresh, written, conn, disk, counts>>

\* _activate_next_plan_step: the first pending step, or the end of the plan.
Activate ==
    /\ phase = "activate"
    /\ \/ \E i \in 1..Len(plan.steps) :
             /\ IsFirst(plan, "pending", i)
             /\ plan' = [plan EXCEPT !.steps[i] = "in_progress"]
             /\ phase' = "savePlan"
             /\ UNCHANGED task
       \/ StepsOf(plan, "pending") = {} /\ AllDone(plan) /\ MarkPlanCompleted
    /\ UNCHANGED <<signaled, fresh, written, conn, disk, counts>>

-------------------------------------------------------------------------------
(* The other calls.                                                        *)

\* update_after_assistant.  A closing answer saves the task; a plan whose steps
\* are all done but whose completion was lost to a failed save is finalised.
Answer(closing) ==
    /\ phase = "ready"
    /\ IF closing /\ task # None THEN TaskSaved(task) ELSE UNCHANGED <<conn, disk>>
    /\ IF IsOpen(plan) /\ AllDone(plan)
       THEN MarkPlanCompleted
       ELSE UNCHANGED <<plan, task, phase>>
    /\ UNCHANGED <<signaled, fresh, written, counts>>

\* Mutant: a failed verification puts a status of its own into the task.
TaskAfterFailed(outcome) == IF outcome = "failed" THEN "failed" ELSE task

\* update_after_tool: a verification command moves the task's status, and
\* every tool saves the task.
TaskAfter(outcome) ==
    CASE outcome = "failed" -> "blocked"
      [] outcome = "passed" /\ task = "blocked" -> "active"
      [] OTHER -> task

AfterTool(outcome) ==
    /\ phase = "ready" /\ task # None
    /\ task' = TaskAfter(outcome)
    /\ TaskSaved(task')
    /\ UNCHANGED <<plan, signaled, fresh, phase, written, counts>>

AfterToolFails(outcome) ==
    /\ phase = "ready" /\ task # None
    /\ task' = TaskAfter(outcome)
    /\ TaskRaised(task')
    /\ UNCHANGED <<plan, signaled, fresh, phase, written, stalled>>

\* A save that raises in update_after_assistant before memory has changed.
EarlyFault ==
    /\ phase = "ready"
    /\ TaskRaised(task)
    /\ UNCHANGED <<memory, phase, written, stalled>>

\* invalidate_after_revert, from a request that does not hold the run's lock.
Revert ==
    /\ phase \notin {"down", "refresh"} /\ task # None
    /\ TaskSaved(task)
    /\ UNCHANGED <<memory, phase, written, counts>>

\* /plan refresh (CLI, between runs): a new plan is saved by the planner and
\* then replaces the one in memory, which an exception leaves as it is.
RefreshPlan(n) ==
    /\ phase = "ready" /\ created < MaxPlans
    /\ fresh' = NewPlan(n)
    /\ created' = created + 1
    /\ phase' = "refresh"
    /\ UNCHANGED <<plan, task, signaled, written, conn, disk, faults, stalled, cut>>

RefreshSaved ==
    /\ phase = "refresh"
    /\ PlanCommitted
    /\ plan' = fresh /\ fresh' = None
    /\ stalled' = FALSE /\ cut' = FALSE
    /\ phase' = "ready"
    /\ UNCHANGED <<task, signaled, created, faults>>

RefreshFails ==
    /\ phase = "refresh"
    /\ PlanRaised
    /\ fresh' = None
    /\ phase' = "ready"
    /\ UNCHANGED <<plan, task, signaled, stalled>>

\* The process stops, and with it the connection; a new process loads the active
\* task and the latest plan.
Crash ==
    /\ phase # "down"
    /\ plan' = None /\ task' = None /\ signaled' = FALSE /\ fresh' = None
    /\ phase' = "down" /\ written' = 0
    /\ RolledBack
    /\ stalled' = FALSE /\ cut' = FALSE
    /\ UNCHANGED <<disk, created, faults>>

Load ==
    /\ phase = "down"
    /\ plan' = dbPlan /\ task' = dbTask
    /\ cut' = torn
    /\ phase' = "ready"
    /\ UNCHANGED <<signaled, fresh, written, conn, disk, created, faults, stalled>>

-------------------------------------------------------------------------------
Saves == \/ SaveTask \/ SaveTaskFails
         \/ PlanStatement
         \/ SavePlan \/ SavePlanFails
         \/ SaveNewPlan \/ SaveFallbackFails
         \/ \E n \in PlanLengths : SaveNewFails(n)
         \/ RefreshSaved \/ RefreshFails

Calls == \/ \E newGoal \in BOOLEAN : BeginRun(newGoal)
         \/ KeepPlan
         \/ \E n \in PlanLengths : CreatePlan(n) \/ RefreshPlan(n)
         \/ BeginTurn \/ CompleteStep \/ Activate
         \/ \E closing \in BOOLEAN : Answer(closing)
         \/ \E outcome \in {"failed", "passed", "other"} :
               AfterTool(outcome) \/ AfterToolFails(outcome)
         \/ EarlyFault \/ Revert

Next == Saves \/ Calls \/ OthersCommit \/ Crash \/ Load

Spec == Init /\ [][Next]_planVars

-------------------------------------------------------------------------------
(* Properties.                                                             *)

TypeOK ==
    /\ \A p \in {plan, fresh, connPlan, connKept, dbPlan, dbKept} : p \in Plan \cup {None}
    /\ \A t \in {task, connTask, dbTask} : t \in Task \cup {None}
    /\ \A b \in {signaled, stalled, half, torn, cut} : b \in BOOLEAN
    /\ phase \in Phase
    /\ written \in Nat /\ created \in Nat /\ faults \in Nat

\* The steps are worked on in order: k are completed, the next is the current
\* one, the rest are pending; the plan is completed exactly when all are.
Resumable(p) ==
    \E k \in 0..Len(p.steps) :
        /\ \A i \in 1..Len(p.steps) :
              p.steps[i] = CASE i <= k     -> "completed"
                             [] i = k + 1  -> "in_progress"
                             [] OTHER      -> "pending"
        /\ p.status = "completed" <=> k = Len(p.steps)

\* The same between two steps: nobody is at work on the k + 1st.
Paused(p) ==
    /\ p.status = "in_progress"
    /\ \E k \in 1..Len(p.steps) :
          \A i \in 1..Len(p.steps) :
              p.steps[i] = IF i <= k THEN "completed" ELSE "pending"

\* The first steps of such a plan, whatever its status.
InOrder(p) ==
    \E k \in 0..Len(p.steps) : \A i \in 1..Len(p.steps) :
        p.steps[i] \in CASE i <= k    -> {"completed"}
                         [] i = k + 1 -> {"in_progress", "pending"}
                         [] OTHER     -> {"pending"}

\* No step is skipped, redone or worked on beside another, whatever is saved,
\* raised or lost in between; only inside complete_current_step, or after a
\* save raised there, is there no current step.  Of a plan whose save was cut
\* in two by somebody's commit a new process may find the first steps only.
PlanInOrder ==
    plan # None =>
        IF stalled \/ phase \in {"saveTask", "activate"}
        THEN Paused(plan) \/ Resumable(plan) \/ (cut /\ InOrder(plan))
        ELSE Resumable(plan) \/ (cut /\ InOrder(plan))

\* The plan on disk is at every moment one a restarted process can continue,
\* unless a commit that is not its save's own took a part of the save: then it
\* is a beginning of such a plan, and stays one until a save of it succeeds.
DurablePlanResumable ==
    dbPlan # None => InOrder(dbPlan) /\ (Resumable(dbPlan) \/ torn)

\* The disk is never ahead of the memory.  Unless the row is torn, it lacks no
\* step of the plan, and a crash loses the completion of one step at most, and of
\* one more for each save that raised before it.
BoundedLoss ==
    IsOpen(plan) /\ dbPlan # None /\ dbPlan.id = plan.id =>
        /\ Done(dbPlan) <= Done(plan)
        /\ torn \/ /\ Len(dbPlan.steps) = Len(plan.steps)
                   /\ Done(plan) - Done(dbPlan) <= 1 + faults

\* A plan is written as completed only after its task is on disk as completed: a
\* crash may leave a completed task with an open plan, never the reverse.
TaskBeforePlan ==
    [][connPlan' \notin {connPlan, dbPlan, None} /\ connPlan'.status = "completed"
          => dbTask' \in {"completed", None}]_planVars

\* "complete the current step and activate the next" (context/manager.py:884;
\* tests/test_dynamic_plan_cli.py:391-392 counts exactly one step in progress):
\* between calls an open plan has a current step.  Refuted: the save of the
\* task raises after the step was marked and before the next is activated.
OpenPlanHasCurrentStep ==
    phase = "ready" /\ HasOpenSteps(plan) => StepsOf(plan, "in_progress") # {}
===============================================================================
