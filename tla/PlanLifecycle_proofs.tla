------------------------- MODULE PlanLifecycle_proofs --------------------------
(***************************************************************************)
(* The safety properties of the plan's life, proved for plans of any       *)
(* length and for any number of plans and faults, with the statements of   *)
(* every save interleaved with the commits of others.                      *)
(***************************************************************************)
EXTENDS PlanLifecycle, FiniteSetTheorems, TLAPS

\* Inside complete_current_step the plan is between two steps.
PausedInside == phase \in {"saveTask", "activate"} => plan # None /\ Paused(plan)

\* Whatever is being saved can be continued from, or is what a restart left.
SavesResumable ==
    phase \in {"savePlan", "saveTaskDone", "saveFirst", "saveNew", "saveFallback"} =>
        plan # None /\ (Resumable(plan) \/ (cut /\ InOrder(plan)))

\* A plan that is not saved yet is unfinished.
NewPlanOpen ==
    /\ phase \in {"saveFirst", "saveNew", "saveFallback"} =>
          plan # None /\ plan.status = "in_progress"
    /\ phase = "refresh" =>
          fresh # None /\ Resumable(fresh) /\ fresh.status = "in_progress"

MemInv == PlanInOrder /\ PausedInside /\ SavesResumable /\ NewPlanOpen

\* DurablePlanResumable, of a row that may have been written in part.
RowOK(row, part) == row # None => InOrder(row) /\ (Resumable(row) \/ part)

RowsInv == RowOK(connPlan, half) /\ RowOK(dbPlan, torn) /\ RowOK(connKept, TRUE) /\ RowOK(dbKept, TRUE)

\* How much of the plan under way is on the connection.
WrittenInv ==
    /\ phase \notin PlanSaves => written = 0
    /\ phase \in PlanSaves =>
          /\ written <= Len(Saved.steps) + 2
          /\ written >= 2 => connPlan = Inserted(Saved, written - 2)

\* A plan that completes takes its task along, in memory and then on disk; a
\* new process starts from the disk.
DoneTogether ==
    /\ phase = "saveTaskDone" => task = "completed"
    /\ phase = "savePlan" /\ plan.status = "completed" =>
          /\ task \in {"completed", None}
          /\ connTask \in {"completed", None} /\ dbTask \in {"completed", None}
    /\ task = None /\ phase # "down" => connTask = None /\ dbTask = None
    /\ phase \in {"saveBegin", "saveTask"} => task # None
    /\ phase = "down" =>
          connPlan = dbPlan /\ connTask = dbTask /\ connKept = dbKept /\ half = torn

IInv == TypeOK /\ MemInv /\ RowsInv /\ WrittenInv /\ DoneTogether

\* The outcomes that a step other than a statement of save_plan has for the rows.
RowsMove ==
    /\ UNCHANGED <<connPlan, connKept, half>> \/ RolledBack
    /\ Commit \/ UNCHANGED disk

-------------------------------------------------------------------------------
(* Plans.                                                                  *)

\* A step's new status leaves a plan of the same length, its other steps as
\* they were.
LEMMA SetStep ==
    ASSUME NEW p \in Plan, NEW i \in 1..Len(p.steps), NEW s \in StepStatus,
           NEW q, q = [p EXCEPT !.steps[i] = s]
    PROVE  /\ q \in Plan /\ q.status = p.status
           /\ Len(q.steps) = Len(p.steps)
           /\ q.steps[i] = s
           /\ \A j \in 1..Len(p.steps) : j # i => q.steps[j] = p.steps[j]
<1> DEFINE t == [p.steps EXCEPT ![i] = s]
<1>1. p.steps \in Seq(StepStatus) /\ p = [id |-> p.id, status |-> p.status, steps |-> p.steps]
  BY DEF Plan
<1>2. /\ t \in Seq(StepStatus) /\ Len(t) = Len(p.steps) /\ t[i] = s
      /\ \A j \in 1..Len(p.steps) : j # i => t[j] = p.steps[j]
  BY <1>1
<1>3. q = [id |-> p.id, status |-> p.status, steps |-> t]
  BY <1>1
<1>4. q \in Plan
  <2>1. p.id \in Nat /\ p.status \in {"in_progress", "completed"}  BY DEF Plan
  <2>2. ASSUME NEW u \in Seq(StepStatus)
        PROVE  [id |-> p.id, status |-> p.status, steps |-> u] \in Plan
    BY <2>1 DEF Plan
  <2> QED BY <1>2, <1>3, <2>2
<1> HIDE DEF t
<1> QED BY <1>2, <1>3, <1>4

\* A plan's new status leaves its steps as they were.
LEMMA SetStatus ==
    ASSUME NEW p \in Plan, NEW s \in {"in_progress", "completed"},
           NEW q, q = [p EXCEPT !.status = s]
    PROVE  q \in Plan /\ q.status = s /\ q.steps = p.steps /\ q.id = p.id
BY DEF Plan

\* The steps inserted so far are a plan's first.
LEMMA InsertedPart ==
    ASSUME NEW p \in Plan, NEW n \in 0..Len(p.steps), NEW q, q = Inserted(p, n)
    PROVE  /\ q \in Plan /\ q.id = p.id /\ q.status = p.status
           /\ Len(q.steps) = n
           /\ \A i \in 1..n : q.steps[i] = p.steps[i]
           /\ n = Len(p.steps) => q = p
<1> DEFINE t == SubSeq(p.steps, 1, n)
<1>1. p.steps \in Seq(StepStatus) /\ p = [id |-> p.id, status |-> p.status, steps |-> p.steps]
  BY DEF Plan
<1>2. /\ t \in Seq(StepStatus) /\ Len(t) = n /\ \A i \in 1..n : t[i] = p.steps[i]
      /\ n = Len(p.steps) => t = p.steps
  BY <1>1
<1>3. q = [id |-> p.id, status |-> p.status, steps |-> t]
  BY <1>1 DEF Inserted
<1>4. q \in Plan
  <2>1. p.id \in Nat /\ p.status \in {"in_progress", "completed"}  BY DEF Plan
  <2>2. ASSUME NEW u \in Seq(StepStatus)
        PROVE  [id |-> p.id, status |-> p.status, steps |-> u] \in Plan
    BY <2>1 DEF Plan
  <2> QED BY <1>2, <1>3, <2>2
<1> HIDE DEF t
<1> QED BY <1>1, <1>2, <1>3, <1>4

\* A plan that can be continued, or is between two steps, is in order.
LEMMA OrderedPlans ==
    ASSUME NEW p \in Plan, Resumable(p) \/ Paused(p)
    PROVE  InOrder(p)
<1>1. Len(p.steps) \in Nat  BY DEF Plan
<1>2. CASE Resumable(p)  BY <1>1, <1>2 DEF Resumable, InOrder
<1>3. CASE Paused(p)  BY <1>1, <1>3 DEF Paused, InOrder
<1> QED BY <1>2, <1>3

\* So are its first steps,
LEMMA InsertedInOrder ==
    ASSUME NEW p \in Plan, InOrder(p), NEW n \in 0..Len(p.steps)
    PROVE  InOrder(Inserted(p, n))
<1> DEFINE q == Inserted(p, n)
<1>1. q \in Plan /\ Len(q.steps) = n /\ \A i \in 1..n : q.steps[i] = p.steps[i]
  BY InsertedPart
<1>2. Len(p.steps) \in Nat  BY DEF Plan
<1>3. PICK k \in 0..Len(p.steps) : \A i \in 1..Len(p.steps) :
         p.steps[i] \in CASE i <= k    -> {"completed"}
                          [] i = k + 1 -> {"in_progress", "pending"}
                          [] OTHER     -> {"pending"}
  BY DEF InOrder
<1> HIDE DEF q
<1>4. CASE k <= n
  <2>1. \A i \in 1..Len(q.steps) :
           q.steps[i] \in CASE i <= k    -> {"completed"}
                            [] i = k + 1 -> {"in_progress", "pending"}
                            [] OTHER     -> {"pending"}
    BY <1>1, <1>2, <1>3
  <2>2. k \in 0..Len(q.steps)  BY <1>1, <1>4
  <2> QED BY <2>1, <2>2 DEF InOrder, q
<1>5. CASE n < k
  <2>1. \A i \in 1..Len(q.steps) :
           q.steps[i] \in CASE i <= n    -> {"completed"}
                            [] i = n + 1 -> {"in_progress", "pending"}
                            [] OTHER     -> {"pending"}
    BY <1>1, <1>2, <1>3, <1>5
  <2>2. n \in 0..Len(q.steps)  BY <1>1
  <2> QED BY <2>1, <2>2 DEF InOrder, q
<1> QED BY <1>2, <1>4, <1>5

\* and so it is with another status.
LEMMA StatusInOrder ==
    ASSUME NEW p \in Plan, InOrder(p), NEW s \in {"in_progress", "completed"}
    PROVE  InOrder([p EXCEPT !.status = s])
<1>1. [p EXCEPT !.status = s].steps = p.steps  BY SetStatus
<1> QED BY <1>1 DEF InOrder

\* Plan.create makes a plan whose first step is the current one.
LEMMA NewPlanResumable ==
    ASSUME NEW n \in Nat \ {0}, created \in Nat
    PROVE  /\ NewPlan(n) \in Plan /\ Resumable(NewPlan(n))
           /\ NewPlan(n).status = "in_progress"
<1> DEFINE s == [i \in 1..n |-> IF i = 1 THEN "in_progress" ELSE "pending"]
<1>1. s \in Seq(StepStatus) /\ Len(s) = n  BY DEF StepStatus
<1>2. NewPlan(n).steps = s /\ NewPlan(n).status = "in_progress"  BY DEF NewPlan
<1>3. NewPlan(n) \in Plan  BY <1>1 DEF NewPlan, Plan
<1>4. \A i \in 1..n : s[i] = IF i = 1 THEN "in_progress" ELSE "pending"  OBVIOUS
<1>5. Resumable(NewPlan(n))
  <2>1. 0 \in 0..n /\ 0 # n  OBVIOUS
  <2>2. \A i \in 1..n : s[i] = CASE i <= 0    -> "completed"
                                 [] i = 0 + 1 -> "in_progress"
                                 [] OTHER     -> "pending"
    BY <1>4
  <2> HIDE DEF s
  <2> QED BY <1>1, <1>2, <2>1, <2>2 DEF Resumable
<1> QED BY <1>2, <1>3, <1>5

\* Completing the current step of a plan in order leaves it between two steps.
LEMMA CompleteKeepsOrder ==
    ASSUME NEW p \in Plan, p.status # "completed", InOrder(p),
           NEW i \in 1..Len(p.steps), p.steps[i] = "in_progress",
           NEW q, q = [p EXCEPT !.steps[i] = "completed"]
    PROVE  q \in Plan /\ Paused(q)
<1>1. /\ q \in Plan /\ q.status = p.status /\ Len(q.steps) = Len(p.steps)
      /\ q.steps[i] = "completed"
      /\ \A j \in 1..Len(p.steps) : j # i => q.steps[j] = p.steps[j]
  BY SetStep DEF StepStatus
<1>2. p.status = "in_progress"  BY DEF Plan
<1>3. Len(p.steps) \in Nat  BY DEF Plan
<1>4. PICK k \in 0..Len(p.steps) : \A j \in 1..Len(p.steps) :
         p.steps[j] \in CASE j <= k    -> {"completed"}
                          [] j = k + 1 -> {"in_progress", "pending"}
                          [] OTHER     -> {"pending"}
  BY DEF InOrder
<1>5. i = k + 1  BY <1>4, <1>3
<1>6. \A j \in 1..Len(q.steps) : q.steps[j] = IF j <= i THEN "completed" ELSE "pending"
  BY <1>1, <1>3, <1>4, <1>5
<1> QED BY <1>1, <1>2, <1>6 DEF Paused

\* Activating the first pending step puts the plan back in order.
LEMMA ActivateRestoresOrder ==
    ASSUME NEW p \in Plan, Paused(p),
           NEW i \in 1..Len(p.steps), IsFirst(p, "pending", i),
           NEW q, q = [p EXCEPT !.steps[i] = "in_progress"]
    PROVE  q \in Plan /\ Resumable(q) /\ q.status = "in_progress"
<1>1. /\ q \in Plan /\ q.status = p.status /\ Len(q.steps) = Len(p.steps)
      /\ q.steps[i] = "in_progress"
      /\ \A j \in 1..Len(p.steps) : j # i => q.steps[j] = p.steps[j]
  BY SetStep DEF StepStatus
<1>2. Len(p.steps) \in Nat  BY DEF Plan
<1>3. PICK k \in 1..Len(p.steps) : \A j \in 1..Len(p.steps) :
         p.steps[j] = IF j <= k THEN "completed" ELSE "pending"
  BY DEF Paused
<1>4. i = k + 1
  <2>1. i > k  BY <1>2, <1>3 DEF IsFirst, StepsOf
  <2>2. k + 1 \in StepsOf(p, "pending")  BY <1>2, <1>3, <2>1 DEF StepsOf
  <2> QED BY <1>2, <2>1, <2>2 DEF IsFirst
<1>5. \A j \in 1..Len(q.steps) : q.steps[j] = CASE j <= k    -> "completed"
                                                [] j = k + 1 -> "in_progress"
                                                [] OTHER     -> "pending"
  BY <1>1, <1>2, <1>3, <1>4
<1>6. q.status = "in_progress" /\ k # Len(q.steps) /\ k \in 0..Len(q.steps)
  BY <1>1, <1>2, <1>4 DEF Paused
<1> QED BY <1>1, <1>5, <1>6 DEF Resumable

\* A plan all of whose steps are done may be marked completed.
LEMMA DoneIsResumable ==
    ASSUME NEW p \in Plan, AllDone(p), NEW q, q = [p EXCEPT !.status = "completed"]
    PROVE  q \in Plan /\ Resumable(q)
<1>1. q \in Plan /\ q.status = "completed" /\ q.steps = p.steps  BY SetStatus
<1>2. Len(p.steps) \in Nat  BY DEF Plan
<1>3. \A j \in 1..Len(q.steps) :
         q.steps[j] = CASE j <= Len(q.steps)    -> "completed"
                        [] j = Len(q.steps) + 1 -> "in_progress"
                        [] OTHER                -> "pending"
  BY <1>1, <1>2 DEF AllDone
<1> QED BY <1>1, <1>2, <1>3 DEF Resumable

-------------------------------------------------------------------------------
(* The invariant.                                                          *)

\* Nothing is loaded at the start, and nothing is on disk.
LEMMA InvInit == Init => IInv
<1> SUFFICES ASSUME Init PROVE IInv  OBVIOUS
<1>1. TypeOK  BY DEF Init, TypeOK, Phase
<1>2. MemInv  BY DEF Init, MemInv, PlanInOrder, PausedInside, SavesResumable, NewPlanOpen
<1>3. RowsInv  BY DEF Init, RowsInv, RowOK
<1>4. WrittenInv /\ DoneTogether  BY DEF Init, WrittenInv, DoneTogether, PlanSaves
<1> QED BY <1>1, <1>2, <1>3, <1>4 DEF IInv

\* What completing a plan does to memory.
LEMMA MarkStep ==
    ASSUME TypeOK, IsOpen(plan), AllDone(plan), MarkPlanCompleted
    PROVE  /\ plan' \in Plan /\ Resumable(plan') /\ plan'.status = "completed"
           /\ plan'.steps = plan.steps /\ plan'.id = plan.id
           /\ task' \in {"completed", None} /\ (task' = None <=> task = None)
           /\ phase' = IF task = None THEN "savePlan" ELSE "saveTaskDone"
<1>1. plan \in Plan  BY DEF TypeOK, IsOpen
<1>2. plan' = [plan EXCEPT !.status = "completed"]  BY DEF MarkPlanCompleted
<1>3. plan' \in Plan /\ Resumable(plan')  BY <1>1, <1>2, DoneIsResumable
<1>4. plan'.status = "completed" /\ plan'.steps = plan.steps /\ plan'.id = plan.id
  BY <1>1, <1>2, SetStatus
<1>5. None # "completed"  BY PlanAssumptions DEF Task
<1> QED BY <1>3, <1>4, <1>5 DEF MarkPlanCompleted

\* What is being saved is a plan, and in order.
LEMMA SavedInOrder ==
    ASSUME TypeOK, MemInv, phase \in PlanSaves
    PROVE  /\ Saved \in Plan /\ InOrder(Saved)
           /\ Resumable(Saved) \/ (cut /\ phase # "refresh")
<1>1. CASE phase = "refresh"
  <2>1. fresh \in Plan /\ Resumable(fresh)  BY <1>1 DEF TypeOK, MemInv, NewPlanOpen
  <2> QED BY <1>1, <2>1, OrderedPlans DEF Saved
<1>2. CASE phase # "refresh"
  <2>1. plan \in Plan /\ (Resumable(plan) \/ (cut /\ InOrder(plan)))
    BY <1>2 DEF TypeOK, MemInv, SavesResumable, PlanSaves
  <2> QED BY <1>2, <2>1, OrderedPlans DEF Saved
<1> QED BY <1>1, <1>2

\* The row that a statement of save_plan leaves.
LEMMA StatementRow ==
    ASSUME TypeOK, MemInv, RowsInv, PlanStatement
    PROVE  /\ connPlan' \in Plan /\ connPlan'.id = Saved.id /\ InOrder(connPlan')
           /\ connPlan'.status = Saved.status
           /\ connPlan' = Header(Saved) \/ \E n \in 0..Len(Saved.steps) : connPlan' = Inserted(Saved, n)
<1>1. Saved \in Plan /\ InOrder(Saved)  BY SavedInOrder DEF PlanStatement
<1>2. Len(Saved.steps) \in Nat /\ Saved.status \in {"in_progress", "completed"}
  BY <1>1 DEF Plan
<1>3. ASSUME NEW n \in 0..Len(Saved.steps), connPlan' = Inserted(Saved, n)
      PROVE  /\ connPlan' \in Plan /\ connPlan'.id = Saved.id /\ InOrder(connPlan')
             /\ connPlan'.status = Saved.status
  BY <1>1, <1>3, InsertedPart, InsertedInOrder
<1>4. CASE written = 0
  <2>1. connPlan' = Header(Saved)  BY <1>4 DEF PlanStatement
  <2>2. CASE RowOf(Saved) = None
    <3>1. connPlan' = Inserted(Saved, 0) /\ 0 \in 0..Len(Saved.steps)
      BY <1>2, <2>1, <2>2 DEF Header
    <3> QED BY <1>3, <3>1
  <2>3. CASE RowOf(Saved) # None
    <3> DEFINE r == RowOf(Saved)
    <3>1. r \in {connPlan, connKept} /\ r.id = Saved.id  BY <2>3 DEF RowOf, Is
    <3>2. r \in Plan /\ InOrder(r)  BY <2>3, <3>1 DEF TypeOK, RowsInv, RowOK
    <3>3. connPlan' = [r EXCEPT !.status = Saved.status]  BY <2>1, <2>3 DEF Header
    <3> HIDE DEF r
    <3>4. connPlan' \in Plan /\ connPlan'.id = Saved.id /\ connPlan'.status = Saved.status
      BY <1>2, <3>1, <3>2, <3>3, SetStatus
    <3>5. InOrder(connPlan')  BY <1>2, <3>2, <3>3, StatusInOrder
    <3> QED BY <2>1, <3>4, <3>5
  <2> QED BY <2>2, <2>3
<1>5. CASE written # 0
  <2>1. written - 1 \in 0..Len(Saved.steps) /\ connPlan' = Inserted(Saved, written - 1)
    BY <1>2, <1>5 DEF PlanStatement, TypeOK
  <2> QED BY <1>3, <2>1
<1> QED BY <1>4, <1>5

\* Apart from the statements, steps commit the rows, lose them, or leave them.
LEMMA Moves == ASSUME [Next]_planVars, ~PlanStatement PROVE RowsMove
<1> USE DEF RowsMove, conn, disk, TaskSaved, TaskRaised, Fault, PlanCommitted, PlanRaised
<1>1. CASE SaveTask \/ SaveTaskFails  BY <1>1 DEF SaveTask, SaveTaskFails
<1>2. CASE SavePlan \/ SavePlanFails \/ SaveNewPlan \/ SaveFallbackFails \/ RefreshSaved \/ RefreshFails
  BY <1>2 DEF SavePlan, SavePlanFails, SaveNewPlan, SaveFallbackFails, RefreshSaved, RefreshFails
<1>3. ASSUME NEW n, SaveNewFails(n) \/ CreatePlan(n) \/ RefreshPlan(n) PROVE RowsMove
  BY <1>3 DEF SaveNewFails, CreatePlan, RefreshPlan
<1>4. ASSUME NEW newGoal, BeginRun(newGoal) PROVE RowsMove  BY <1>4 DEF BeginRun
<1>5. CASE KeepPlan \/ BeginTurn \/ CompleteStep \/ Activate
  BY <1>5 DEF KeepPlan, BeginTurn, CompleteStep, Activate
<1>6. ASSUME NEW closing, Answer(closing) PROVE RowsMove  BY <1>6 DEF Answer
<1>7. ASSUME NEW outcome, AfterTool(outcome) \/ AfterToolFails(outcome) PROVE RowsMove
  BY <1>7 DEF AfterTool, AfterToolFails
<1>8. CASE EarlyFault \/ Revert \/ OthersCommit  BY <1>8 DEF EarlyFault, Revert, OthersCommit
<1>9. CASE Crash \/ Load  BY <1>9 DEF Crash, Load
<1>10. CASE UNCHANGED planVars  BY <1>10 DEF planVars
<1> QED
  BY <1>1, <1>2, <1>3, <1>4, <1>5, <1>6, <1>7, <1>8, <1>9, <1>10 DEF Next, Saves, Calls

\* The rows stay in order.
LEMMA RowsStep == ASSUME TypeOK, MemInv, RowsInv, [Next]_planVars PROVE RowsInv'
<1>1. CASE PlanStatement
  <2>1. UNCHANGED <<dbPlan, dbKept, torn>>  BY <1>1 DEF PlanStatement, disk
  <2>2. InOrder(connPlan')  BY <1>1, StatementRow
  <2>3. connPlan' # connPlan /\ ~half' => Resumable(connPlan')
    <3>1. connPlan' # connPlan /\ ~half' => connPlan' = Saved /\ ~(cut /\ phase # "refresh")
      BY <1>1 DEF PlanStatement
    <3> QED BY <1>1, <3>1, SavedInOrder DEF PlanStatement
  <2>4. connPlan' = connPlan => half' = half  BY <1>1 DEF PlanStatement
  <2>5. connKept' \in {None, connPlan, connKept}  BY <1>1 DEF PlanStatement, RowOf
  <2> QED BY <2>1, <2>2, <2>3, <2>4, <2>5 DEF RowsInv, RowOK
<1>2. CASE ~PlanStatement
  <2>1. RowsMove  BY <1>2, Moves
  <2> QED BY <2>1 DEF RowsMove, RowsInv, RolledBack, Commit, disk
<1> QED BY <1>1, <1>2

\* Memory keeps its types and its order.
LEMMA MemStep ==
    ASSUME TypeOK, MemInv, RowsInv, [Next]_planVars
    PROVE  MemInv' /\ plan' \in Plan \cup {None} /\ fresh' \in Plan \cup {None}
<1> DEFINE Goal == MemInv' /\ plan' \in Plan \cup {None} /\ fresh' \in Plan \cup {None}
<1> SUFFICES Goal  OBVIOUS
<1>0. plan \in Plan \cup {None} /\ fresh \in Plan \cup {None} /\ created \in Nat  BY DEF TypeOK
<1>a. plan # None => InOrder(plan)
  BY <1>0, OrderedPlans DEF MemInv, PlanInOrder
<1> USE DEF MemInv, PlanInOrder, PausedInside, SavesResumable, NewPlanOpen, memory, counts
\* The plan stays, and no call begins or ends.
<1>1. ASSUME UNCHANGED <<plan, fresh, phase, stalled, cut>> PROVE Goal
  BY <1>0, <1>1
<1>2. CASE \/ OthersCommit \/ PlanStatement \/ Revert \/ BeginTurn \/ EarlyFault \/ UNCHANGED planVars
          \/ \E outcome \in {"failed", "passed", "other"} : AfterTool(outcome) \/ AfterToolFails(outcome)
  <2>1. UNCHANGED <<plan, fresh, phase, stalled, cut>>
    BY <1>2
       DEF OthersCommit, PlanStatement, Revert, BeginTurn, EarlyFault, AfterTool, AfterToolFails,
           planVars, TaskRaised, Fault
  <2> QED BY <1>1, <2>1
\* The plan stays; the call is between its steps or ends.
<1>3. ASSUME UNCHANGED <<plan, stalled, cut>>, fresh' \in {fresh, None},
             phase \notin {"saveTask", "activate"}, phase' \in {"ready", "saveBegin", "needPlan"}
      PROVE  Goal
  BY <1>0, <1>3
<1>4. CASE \/ SavePlan \/ SavePlanFails \/ SaveFallbackFails \/ RefreshFails
          \/ \E newGoal \in BOOLEAN : BeginRun(newGoal)
  <2>1. UNCHANGED <<plan, stalled, cut>> /\ fresh' \in {fresh, None}
    BY <1>4 DEF SavePlan, SavePlanFails, SaveFallbackFails, RefreshFails, BeginRun, PlanRaised, Fault
  <2>2. phase \notin {"saveTask", "activate"} /\ phase' \in {"ready", "saveBegin", "needPlan"}
    BY <1>4 DEF SavePlan, SavePlanFails, SaveFallbackFails, RefreshFails, BeginRun
  <2> QED BY <1>3, <2>1, <2>2
<1>5. CASE SaveNewPlan
  <2>1. UNCHANGED <<plan, fresh, stalled, cut>>  BY <1>5 DEF SaveNewPlan
  <2>2. \/ phase = "saveFirst" /\ phase' = "saveNew"
        \/ phase \in {"saveNew", "saveFallback"} /\ phase' = "ready"
    BY <1>5 DEF SaveNewPlan
  <2> QED BY <1>0, <2>1, <2>2
<1>6. CASE SaveTask
  <2>1. UNCHANGED <<plan, fresh, stalled, cut>>  BY <1>6 DEF SaveTask
  <2>2. \/ phase = "saveBegin" /\ phase' = "needPlan"
        \/ phase = "saveTask" /\ phase' = "activate"
        \/ phase = "saveTaskDone" /\ phase' = "savePlan"
    BY <1>6 DEF SaveTask, AfterTaskSave
  <2> QED BY <1>0, <2>1, <2>2
<1>7. CASE SaveTaskFails
  <2>1. UNCHANGED <<plan, fresh, cut>> /\ phase' = "ready"  BY <1>7 DEF SaveTaskFails, TaskRaised, Fault
  <2>2. (stalled => stalled') /\ (phase = "saveTask" => stalled')
    BY <1>7, Zenon DEF SaveTaskFails
  <2>3. phase \in {"saveBegin", "saveTask", "saveTaskDone"}
    BY <1>7 DEF SaveTaskFails, AfterTaskSave
  <2> QED BY <1>0, <2>1, <2>2, <2>3
<1>8. CASE KeepPlan
  <2>1. UNCHANGED <<plan, fresh, stalled, cut>> /\ phase = "needPlan"  BY <1>8 DEF KeepPlan
  <2>2. CASE phase' = "ready"  BY <1>3, <2>1, <2>2
  <2>3. CASE phase' = "saveFallback" /\ ~stalled
    <3>1. plan \in Plan /\ plan # None /\ plan.status = "in_progress"
      BY <1>0, <1>8 DEF KeepPlan, IsOpen, Plan
    <3> QED BY <1>0, <2>1, <2>3, <3>1
  <2> QED BY <1>8, <2>2, <2>3 DEF KeepPlan
\* A new plan.
<1>9. ASSUME NEW n \in PlanLengths
      PROVE  NewPlan(n) \in Plan /\ NewPlan(n) # None /\ Resumable(NewPlan(n)) /\ NewPlan(n).status = "in_progress"
  <2>1. n \in Nat \ {0}  BY PlanAssumptions
  <2> QED BY <1>0, <2>1, NewPlanResumable, PlanAssumptions
<1>10. ASSUME NEW n \in PlanLengths, CreatePlan(n) \/ SaveNewFails(n) PROVE Goal
  <2>1. plan' = NewPlan(n) /\ fresh' = fresh /\ phase' \in {"saveFirst", "saveNew", "saveFallback"}
    BY <1>10 DEF CreatePlan, SaveNewFails
  <2> QED BY <1>0, <1>9, <2>1
<1>11. ASSUME NEW n \in PlanLengths, RefreshPlan(n) PROVE Goal
  <2>1. /\ UNCHANGED <<plan, stalled, cut>> /\ fresh' = NewPlan(n)
        /\ phase = "ready" /\ phase' = "refresh"
    BY <1>11 DEF RefreshPlan
  <2> QED BY <1>0, <1>9, <2>1
<1>12. CASE RefreshSaved
  <2>1. /\ plan' = fresh /\ fresh' = None /\ phase' = "ready" /\ phase = "refresh"
    BY <1>12 DEF RefreshSaved
  <2> QED BY <1>0, <2>1
\* complete_current_step and the end of the plan.
<1>13. CASE CompleteStep
  <2>1. plan \in Plan /\ plan.status # "completed" /\ InOrder(plan)
    BY <1>0, <1>a, <1>13 DEF CompleteStep, MayComplete, IsOpen
  <2>2. PICK i \in 1..Len(plan.steps) :
           plan.steps[i] = "in_progress" /\ plan' = [plan EXCEPT !.steps[i] = "completed"]
    BY <1>13 DEF CompleteStep, IsFirst, StepsOf
  <2>3. plan' \in Plan /\ Paused(plan')  BY <2>1, <2>2, CompleteKeepsOrder
  <2>4. plan' # None  BY <2>3, PlanAssumptions
  <2>5. phase' \in {"saveTask", "activate"} /\ UNCHANGED <<fresh, stalled, cut>>
    BY <1>13 DEF CompleteStep
  <2> QED BY <1>0, <2>3, <2>4, <2>5
<1>14. ASSUME phase = "activate" \/ IsOpen(plan), plan # None, AllDone(plan), MarkPlanCompleted,
              UNCHANGED <<fresh, stalled, cut>>
       PROVE  Goal
  <2>1. IsOpen(plan)  BY <1>0, <1>14 DEF Paused, IsOpen
  <2>2. plan' \in Plan /\ Resumable(plan') /\ phase' \in {"savePlan", "saveTaskDone"}
    BY <1>14, <2>1, MarkStep
  <2>3. plan' # None  BY <2>2, PlanAssumptions
  <2> QED BY <1>0, <1>14, <2>2, <2>3
<1>15. CASE Activate
  <2>1. plan \in Plan /\ plan # None /\ Paused(plan) /\ phase = "activate"
    BY <1>0, <1>15 DEF Activate
  <2>2. UNCHANGED <<fresh, stalled, cut>>  BY <1>15 DEF Activate
  <2>3. ASSUME NEW i \in 1..Len(plan.steps), IsFirst(plan, "pending", i),
               plan' = [plan EXCEPT !.steps[i] = "in_progress"], phase' = "savePlan"
        PROVE  Goal
    <3>1. plan' \in Plan /\ Resumable(plan')  BY <2>1, <2>3, ActivateRestoresOrder
    <3>2. plan' # None  BY <3>1, PlanAssumptions
    <3> QED BY <1>0, <2>2, <2>3, <3>1, <3>2
  <2> QED BY <1>14, <1>15, <2>1, <2>2, <2>3 DEF Activate
<1>16. ASSUME NEW closing \in BOOLEAN, Answer(closing) PROVE Goal
  <2>1. UNCHANGED <<fresh, stalled, cut>>  BY <1>16 DEF Answer
  <2>2. CASE IsOpen(plan) /\ AllDone(plan)
    <3>1. plan # None /\ MarkPlanCompleted  BY <1>16, <2>2 DEF Answer, IsOpen
    <3> QED BY <1>14, <2>1, <2>2, <3>1
  <2>3. CASE ~(IsOpen(plan) /\ AllDone(plan))
    <3>1. UNCHANGED <<plan, phase>>  BY <1>16, <2>3 DEF Answer
    <3> QED BY <1>1, <2>1, <3>1
  <2> QED BY <2>2, <2>3
\* The end of the process, and the next one.
<1>17. CASE Crash
  <2>1. plan' = None /\ fresh' = None /\ phase' = "down"  BY <1>17 DEF Crash
  <2> QED BY <2>1
<1>18. CASE Load
  <2>1. plan' = dbPlan /\ cut' = torn /\ phase' = "ready" /\ fresh' = fresh
    BY <1>18 DEF Load
  <2>2. dbPlan \in Plan \cup {None}  BY DEF TypeOK
  <2>3. dbPlan # None => InOrder(dbPlan) /\ (Resumable(dbPlan) \/ torn)  BY DEF RowsInv, RowOK
  <2> QED BY <1>0, <2>1, <2>2, <2>3
<1> HIDE DEF Goal
<1> QED
  BY <1>2, <1>4, <1>5, <1>6, <1>7, <1>8, <1>10, <1>11, <1>12, <1>13, <1>15, <1>16, <1>17, <1>18
     DEF Next, Saves, Calls

\* Everything keeps its type.
LEMMA TypeStep ==
    ASSUME TypeOK, MemInv, RowsInv, [Next]_planVars,
           plan' \in Plan \cup {None}, fresh' \in Plan \cup {None}
    PROVE  TypeOK'
<1>1. /\ connPlan' \in Plan \cup {None} /\ connKept' \in Plan \cup {None} /\ half' \in BOOLEAN
      /\ dbPlan' \in Plan \cup {None} /\ dbKept' \in Plan \cup {None} /\ torn' \in BOOLEAN
  <2>1. CASE PlanStatement
    <3>1. connPlan' \in Plan  BY <2>1, StatementRow
    <3>2. connKept' \in {None, connPlan, connKept}  BY <2>1 DEF PlanStatement, RowOf
    <3>3. half' \in BOOLEAN  BY <2>1 DEF PlanStatement, TypeOK
    <3> QED BY <2>1, <3>1, <3>2, <3>3 DEF PlanStatement, disk, TypeOK
  <2>2. CASE ~PlanStatement
    BY <2>2, Moves DEF RowsMove, RolledBack, Commit, disk, TypeOK
  <2> QED BY <2>1, <2>2
<1> DEFINE Rest ==
           /\ task' \in Task \cup {None} /\ connTask' \in Task \cup {None} /\ dbTask' \in Task \cup {None}
           /\ signaled' \in BOOLEAN /\ stalled' \in BOOLEAN /\ cut' \in BOOLEAN
           /\ phase' \in Phase
           /\ written' \in Nat /\ created' \in Nat /\ faults' \in Nat
<1>2. Rest
  <2>0. /\ task \in Task \cup {None} /\ connTask \in Task \cup {None} /\ dbTask \in Task \cup {None}
        /\ signaled \in BOOLEAN /\ stalled \in BOOLEAN /\ cut \in BOOLEAN /\ torn \in BOOLEAN
        /\ phase \in Phase
        /\ written \in Nat /\ created \in Nat /\ faults \in Nat
    BY DEF TypeOK
  <2> USE <2>0 DEF Phase, PlanSaves, Task, memory, counts, conn, disk, TaskSaved, TaskRaised, Fault,
              PlanCommitted, PlanRaised, RolledBack, Commit
  <2>1. CASE SaveTask  BY <2>1 DEF SaveTask, AfterTaskSave
  <2>2. CASE SaveTaskFails
    <3>1. stalled' \in BOOLEAN  BY <2>2, Zenon DEF SaveTaskFails
    <3> QED BY <2>2, <3>1 DEF SaveTaskFails
  <2>3. CASE SavePlan \/ SavePlanFails \/ SaveNewPlan \/ SaveFallbackFails
    BY <2>3 DEF SavePlan, SavePlanFails, SaveNewPlan, SaveFallbackFails
  <2>4. CASE RefreshSaved  BY <2>4 DEF RefreshSaved
  <2>15. CASE RefreshFails  BY <2>15 DEF RefreshFails
  <2>5. CASE PlanStatement \/ OthersCommit
    BY <2>5 DEF PlanStatement, OthersCommit
  <2>6. ASSUME NEW n \in PlanLengths, SaveNewFails(n) \/ CreatePlan(n) \/ RefreshPlan(n) PROVE Rest
    <3>1. CASE SaveNewFails(n)  BY <3>1 DEF SaveNewFails
    <3>2. CASE CreatePlan(n)
      <4>1. stalled' \in BOOLEAN /\ cut' \in BOOLEAN  BY <3>2 DEF CreatePlan
      <4>2. created' \in Nat /\ UNCHANGED <<faults, written, task, connTask, dbTask, signaled>>
        BY <3>2 DEF CreatePlan
      <4>3. phase' \in Phase  BY <3>2 DEF CreatePlan
      <4> QED BY <4>1, <4>2, <4>3
    <3>3. CASE RefreshPlan(n)  BY <3>3 DEF RefreshPlan
    <3> QED BY <2>6, <3>1, <3>2, <3>3
  <2>7. ASSUME NEW newGoal \in BOOLEAN, BeginRun(newGoal) PROVE Rest  BY <2>7 DEF BeginRun
  <2>8. CASE KeepPlan \/ BeginTurn \/ CompleteStep
    BY <2>8 DEF KeepPlan, BeginTurn, CompleteStep
  <2>9. CASE Activate  BY <2>9 DEF Activate, MarkPlanCompleted
  <2>10. ASSUME NEW closing \in BOOLEAN, Answer(closing) PROVE Rest
    <3>1. /\ connTask' \in {connTask, task} /\ dbTask' \in {dbTask, task}
          /\ UNCHANGED <<signaled, fresh, written, counts>>
      BY <2>10 DEF Answer
    <3>2. UNCHANGED <<task, phase>> \/ MarkPlanCompleted  BY <2>10 DEF Answer
    <3> QED BY <3>1, <3>2 DEF MarkPlanCompleted
  <2>11. ASSUME NEW outcome \in {"failed", "passed", "other"},
                AfterTool(outcome) \/ AfterToolFails(outcome)
         PROVE  Rest
    BY <2>11 DEF AfterTool, AfterToolFails, TaskAfter
  <2>12. CASE EarlyFault \/ Revert  BY <2>12 DEF EarlyFault, Revert
  <2>13. CASE Crash  BY <2>13 DEF Crash
  <2>16. CASE Load  BY <2>16 DEF Load
  <2>14. CASE UNCHANGED planVars  BY <2>14 DEF planVars
  <2> HIDE DEF Rest
  <2> QED
    BY <2>1, <2>2, <2>3, <2>4, <2>5, <2>6, <2>7, <2>8, <2>9, <2>10, <2>11, <2>12, <2>13, <2>14, <2>15, <2>16
       DEF Next, Saves, Calls
<1> QED BY <1>1, <1>2 DEF TypeOK

\* So does what is known of the save under way.
LEMMA WrittenStep ==
    ASSUME TypeOK, WrittenInv, [Next]_planVars, TypeOK', MemInv'
    PROVE  WrittenInv'
<1> USE DEF WrittenInv, memory, counts
<1>0. written \in Nat /\ (phase' \in PlanSaves => Saved' \in Plan /\ Len(Saved'.steps) \in Nat)
  BY DEF TypeOK, MemInv, SavesResumable, NewPlanOpen, Saved, PlanSaves, Plan
<1>1. ASSUME written' = 0 PROVE WrittenInv'
  BY <1>0, <1>1
<1>2. ASSUME UNCHANGED <<plan, fresh, phase, written, connPlan>> PROVE WrittenInv'
  BY <1>2 DEF Saved
<1>3. CASE \/ OthersCommit \/ Revert \/ BeginTurn \/ UNCHANGED planVars
  BY <1>2, <1>3 DEF OthersCommit, Revert, BeginTurn, planVars, conn, TaskSaved
<1>4. CASE PlanStatement
  <2>1. /\ UNCHANGED <<plan, fresh, phase>> /\ phase \in PlanSaves
        /\ written' = written + 1 /\ written < Len(Saved.steps) + 2
        /\ written # 0 => connPlan' = Inserted(Saved, written - 1)
    BY <1>4 DEF PlanStatement
  <2>2. Saved' = Saved /\ phase' \in PlanSaves  BY <2>1 DEF Saved
  <2>3. written' <= Len(Saved.steps) + 2  BY <1>0, <2>1, <2>2
  <2>4. written' >= 2 => written # 0 /\ written' - 2 = written - 1  BY <1>0, <2>1
  <2> QED BY <2>1, <2>2, <2>3, <2>4
<1>5. CASE \/ SavePlan \/ SavePlanFails \/ SaveNewPlan \/ SaveFallbackFails
          \/ RefreshSaved \/ RefreshFails \/ Crash
  BY <1>1, <1>5
     DEF SavePlan, SavePlanFails, SaveNewPlan, SaveFallbackFails, RefreshSaved, RefreshFails,
         Crash, PlanCommitted, PlanRaised
<1>6. ASSUME phase \notin PlanSaves, written' = written PROVE WrittenInv'
  BY <1>1, <1>6
<1>7. CASE SaveTask \/ SaveTaskFails
  BY <1>6, <1>7 DEF SaveTask, SaveTaskFails, AfterTaskSave, PlanSaves
<1>8. CASE KeepPlan \/ CompleteStep \/ Activate \/ EarlyFault \/ Load
  BY <1>6, <1>8 DEF KeepPlan, CompleteStep, Activate, EarlyFault, Load, PlanSaves
<1>9. ASSUME NEW n, SaveNewFails(n) \/ CreatePlan(n) \/ RefreshPlan(n) PROVE WrittenInv'
  BY <1>1, <1>6, <1>9 DEF SaveNewFails, CreatePlan, RefreshPlan, PlanSaves
<1>10. ASSUME NEW newGoal, BeginRun(newGoal) PROVE WrittenInv'
  BY <1>6, <1>10 DEF BeginRun, PlanSaves
<1>11. ASSUME NEW closing, Answer(closing) PROVE WrittenInv'
  BY <1>6, <1>11 DEF Answer, PlanSaves
<1>12. ASSUME NEW outcome, AfterTool(outcome) \/ AfterToolFails(outcome) PROVE WrittenInv'
  BY <1>6, <1>12 DEF AfterTool, AfterToolFails, PlanSaves
<1> QED BY <1>3, <1>4, <1>5, <1>7, <1>8, <1>9, <1>10, <1>11, <1>12 DEF Next, Saves, Calls

\* And a plan and its task end together.
LEMMA TogetherStep ==
    ASSUME TypeOK, MemInv, DoneTogether, [Next]_planVars
    PROVE  DoneTogether'
<1>0. None # "completed" /\ None # "active" /\ None # "blocked"  BY PlanAssumptions DEF Task
<1> USE <1>0 DEF DoneTogether, memory, counts, conn, disk, TaskSaved, TaskRaised, Fault, RolledBack,
                 Commit, PlanCommitted, PlanRaised
<1>1. CASE SaveTask  BY <1>1 DEF SaveTask, AfterTaskSave
<1>2. CASE SaveTaskFails  BY <1>2 DEF SaveTaskFails, AfterTaskSave
<1>3. CASE SavePlan \/ SavePlanFails \/ SaveFallbackFails \/ RefreshSaved \/ RefreshFails
  BY <1>3 DEF SavePlan, SavePlanFails, SaveFallbackFails, RefreshSaved, RefreshFails
<1>4. CASE SaveNewPlan  BY <1>4 DEF SaveNewPlan
<1>5. CASE PlanStatement  BY <1>5 DEF PlanStatement, PlanSaves
<1>6. ASSUME NEW n \in PlanLengths, SaveNewFails(n) PROVE DoneTogether'
  BY <1>6 DEF SaveNewFails
<1>7. ASSUME NEW n \in PlanLengths, CreatePlan(n) \/ RefreshPlan(n) PROVE DoneTogether'
  BY <1>7 DEF CreatePlan, RefreshPlan
<1>8. ASSUME NEW newGoal \in BOOLEAN, BeginRun(newGoal) PROVE DoneTogether'
  BY <1>8 DEF BeginRun
<1>9. CASE KeepPlan \/ BeginTurn  BY <1>9 DEF KeepPlan, BeginTurn
<1>10. CASE CompleteStep  BY <1>10 DEF CompleteStep
<1>11. CASE Activate
  <2>1. plan \in Plan /\ plan # None /\ Paused(plan) /\ phase = "activate"
    BY <1>11 DEF Activate, MemInv, PausedInside, TypeOK
  <2>2. UNCHANGED <<conn, disk>>  BY <1>11 DEF Activate
  <2>3. ASSUME NEW i \in 1..Len(plan.steps), IsFirst(plan, "pending", i),
               plan' = [plan EXCEPT !.steps[i] = "in_progress"], phase' = "savePlan", UNCHANGED task
        PROVE  DoneTogether'
    <3>1. plan'.status = "in_progress"  BY <2>1, <2>3, ActivateRestoresOrder
    <3> QED BY <2>1, <2>2, <2>3, <3>1
  <2>4. CASE MarkPlanCompleted  BY <2>1, <2>2, <2>4 DEF MarkPlanCompleted
  <2> QED BY <1>11, <2>3, <2>4 DEF Activate
<1>12. ASSUME NEW closing \in BOOLEAN, Answer(closing) PROVE DoneTogether'
  <2>1. /\ phase = "ready"
        /\ task = None => UNCHANGED <<conn, disk>>
    BY <1>12 DEF Answer
  <2>2. CASE MarkPlanCompleted  BY <2>1, <2>2 DEF MarkPlanCompleted
  <2>3. CASE UNCHANGED <<plan, task, phase>>  BY <2>1, <2>3
  <2> QED BY <1>12, <2>2, <2>3 DEF Answer
<1>13. ASSUME NEW outcome \in {"failed", "passed", "other"}, AfterTool(outcome) \/ AfterToolFails(outcome)
       PROVE  DoneTogether'
  BY <1>13 DEF AfterTool, AfterToolFails, TaskAfter
<1>14. CASE EarlyFault  BY <1>14 DEF EarlyFault
<1>15. CASE Revert  BY <1>15 DEF Revert
<1>16. CASE OthersCommit  BY <1>16 DEF OthersCommit
<1>17. CASE Crash  BY <1>17 DEF Crash
<1>18. CASE Load  BY <1>18 DEF Load
<1>19. CASE UNCHANGED planVars  BY <1>19 DEF planVars
<1> QED
  BY <1>1, <1>2, <1>3, <1>4, <1>5, <1>6, <1>7, <1>8, <1>9, <1>10, <1>11, <1>12, <1>13, <1>14, <1>15,
     <1>16, <1>17, <1>18, <1>19
     DEF Next, Saves, Calls

\* Every call, statement, commit, fault, crash and restart keeps the invariant.
LEMMA InvStep == ASSUME IInv, [Next]_planVars PROVE IInv'
<1>1. MemInv' /\ plan' \in Plan \cup {None} /\ fresh' \in Plan \cup {None}  BY MemStep DEF IInv
<1>2. RowsInv'  BY RowsStep DEF IInv
<1>3. TypeOK'  BY <1>1, TypeStep DEF IInv
<1>4. WrittenInv'  BY <1>1, <1>3, WrittenStep DEF IInv
<1>5. DoneTogether'  BY TogetherStep DEF IInv
<1> QED BY <1>1, <1>2, <1>3, <1>4, <1>5 DEF IInv

\* The inductive invariant holds in every reachable state.
THEOREM Invariance == Spec => []IInv
BY InvInit, InvStep, PTL DEF Spec

\* Every reachable state is well typed.
THEOREM TypeCorrect == Spec => []TypeOK
BY Invariance, PTL DEF IInv

\* For a plan of any length, no step is skipped, redone or worked on beside
\* another, whatever is saved, raised or lost in between; what a restart left of
\* a plan whose save was cut in two is still its first steps in order.
THEOREM OrderHolds == Spec => []PlanInOrder
<1>1. IInv => PlanInOrder  BY DEF IInv, MemInv
<1> QED BY <1>1, Invariance, PTL

\* Wherever the statements of a save are cut, by a commit of somebody else, an
\* exception or the end of the process, the plan on disk can be continued or is
\* the beginning of such a plan, and the latter only while a part of a save is
\* on disk.
THEOREM DiskResumable == Spec => []DurablePlanResumable
<1>1. IInv => DurablePlanResumable  BY DEF IInv, RowsInv, RowOK, DurablePlanResumable
<1> QED BY <1>1, Invariance, PTL

\* The statement that writes a plan as completed runs after its task is on disk
\* as completed.
THEOREM TaskFirst == Spec => TaskBeforePlan
<1> DEFINE Step == /\ connPlan' \notin {connPlan, dbPlan, None}
                   /\ connPlan'.status = "completed"
<1>1. ASSUME IInv, [Next]_planVars, Step PROVE dbTask' \in {"completed", None}
  <2>1. PlanStatement
    <3>1. ~PlanStatement => RowsMove  BY <1>1, Moves
    <3> QED BY <1>1, <3>1 DEF RowsMove, RolledBack
  <2>2. connPlan'.status = Saved.status /\ phase \in PlanSaves /\ dbTask' = dbTask
    BY <1>1, <2>1, StatementRow DEF IInv, PlanStatement, disk
  <2>3. phase = "savePlan" /\ plan.status = "completed"
    BY <1>1, <2>2 DEF IInv, MemInv, NewPlanOpen, PlanSaves, Saved
  <2> QED BY <1>1, <2>2, <2>3 DEF IInv, DoneTogether
<1> QED BY <1>1, Invariance, PTL DEF Spec, TaskBeforePlan

-------------------------------------------------------------------------------
(* What a crash loses.                                                     *)

Between == {"saveTask", "activate", "saveTaskDone", "savePlan"}

\* Plans have the ids that were given out, and a row that a refresh left behind
\* is not the latest one.
IdsGiven ==
    /\ \A p \in {plan, fresh, connPlan, connKept, dbPlan, dbKept} : p # None => p.id <= created
    /\ connKept # None /\ connPlan # None => connKept.id # connPlan.id
    /\ dbKept # None /\ dbPlan # None => dbKept.id # dbPlan.id
    /\ phase = "refresh" =>
          /\ fresh.id = created
          /\ plan # None => plan.id < created
          /\ connKept # None => connKept.id < created

\* A row of the plan is not ahead of it; a whole one is behind by a step for
\* each fault, and by one more until the step just completed is saved.
Bound(row, part) ==
    plan # None /\ row # None /\ row.id = plan.id =>
        /\ Done(row) <= Done(plan)
        /\ part \/ /\ Len(row.steps) = Len(plan.steps)
                   /\ Done(plan) <= Done(row) + faults + (IF phase \in Between THEN 1 ELSE 0)

LossBound == Bound(connPlan, half) /\ Bound(dbPlan, torn) /\ Bound(connKept, TRUE) /\ Bound(dbKept, TRUE)

\* The number of completed steps depends on the steps alone.
LEMMA DoneType ==
    ASSUME NEW p \in Plan
    PROVE  Done(p) \in Nat /\ IsFiniteSet(StepsOf(p, "completed"))
<1>1. Len(p.steps) \in Nat  BY DEF Plan
<1>2. IsFiniteSet(1..Len(p.steps))  BY <1>1, FS_Interval
<1>3. StepsOf(p, "completed") \in SUBSET (1..Len(p.steps))  BY DEF StepsOf
<1>4. IsFiniteSet(StepsOf(p, "completed"))  BY <1>2, <1>3, FS_Subset
<1> QED BY <1>4, FS_CardinalityType DEF Done

\* Of the steps inserted so far no more are completed.
LEMMA InsertedCounts ==
    ASSUME NEW p \in Plan, NEW n \in 0..Len(p.steps), NEW q, q = Inserted(p, n)
    PROVE  Done(q) <= Done(p)
<1>1. Len(p.steps) \in Nat /\ Len(q.steps) = n /\ \A i \in 1..n : q.steps[i] = p.steps[i]
  BY InsertedPart DEF Plan
<1>2. StepsOf(q, "completed") \in SUBSET StepsOf(p, "completed")  BY <1>1 DEF StepsOf
<1> QED BY <1>2, DoneType, FS_Subset DEF Done

\* Completing a step that was not completed adds one.
LEMMA CompleteCounts ==
    ASSUME NEW p \in Plan, NEW i \in 1..Len(p.steps), p.steps[i] = "in_progress",
           NEW q, q = [p EXCEPT !.steps[i] = "completed"]
    PROVE  Done(q) = Done(p) + 1 /\ q.id = p.id /\ Len(q.steps) = Len(p.steps)
<1>1. /\ Len(q.steps) = Len(p.steps) /\ q.steps[i] = "completed"
      /\ \A j \in 1..Len(p.steps) : j # i => q.steps[j] = p.steps[j]
  BY SetStep DEF StepStatus
<1>2. StepsOf(q, "completed") = StepsOf(p, "completed") \cup {i}  BY <1>1 DEF StepsOf
<1>3. i \notin StepsOf(p, "completed")  BY DEF StepsOf
<1>4. q.id = p.id  BY DEF Plan
<1> QED BY <1>1, <1>2, <1>3, <1>4, DoneType, FS_AddElement DEF Done

\* Activating a pending step adds none.
LEMMA ActivateCounts ==
    ASSUME NEW p \in Plan, NEW i \in 1..Len(p.steps), p.steps[i] = "pending",
           NEW q, q = [p EXCEPT !.steps[i] = "in_progress"]
    PROVE  Done(q) = Done(p) /\ q.id = p.id /\ Len(q.steps) = Len(p.steps)
<1>1. /\ Len(q.steps) = Len(p.steps) /\ q.steps[i] = "in_progress"
      /\ \A j \in 1..Len(p.steps) : j # i => q.steps[j] = p.steps[j]
  BY SetStep DEF StepStatus
<1>2. StepsOf(q, "completed") = StepsOf(p, "completed")  BY <1>1 DEF StepsOf
<1>3. q.id = p.id  BY DEF Plan
<1> QED BY <1>1, <1>2, <1>3 DEF Done

\* Neither does a plan's status.
LEMMA StatusCounts ==
    ASSUME NEW p \in Plan, NEW s \in {"in_progress", "completed"},
           NEW q, q = [p EXCEPT !.status = s]
    PROVE  Done(q) = Done(p) /\ q.id = p.id /\ Len(q.steps) = Len(p.steps)
<1>1. q.steps = p.steps /\ q.id = p.id  BY SetStatus
<1> QED BY <1>1 DEF Done, StepsOf

\* A new plan has the next id.
LEMMA NewPlanId ==
    ASSUME TypeOK, NEW n \in PlanLengths
    PROVE  NewPlan(n) \in Plan /\ NewPlan(n) # None /\ NewPlan(n).id = created + 1
<1>1. n \in Nat \ {0} /\ created \in Nat  BY PlanAssumptions DEF TypeOK
<1>2. NewPlan(n) \in Plan  BY <1>1, NewPlanResumable
<1> QED BY <1>2, PlanAssumptions DEF NewPlan

\* No step gives an id out twice.
LEMMA IdsStep == ASSUME IInv, IdsGiven, [Next]_planVars PROVE IdsGiven'
<1>0. /\ created \in Nat
      /\ \A p \in {plan, fresh, connPlan, connKept, dbPlan, dbKept} : p # None => p \in Plan /\ p.id \in Nat
  BY DEF IInv, TypeOK, Plan
<1> USE <1>0 DEF IdsGiven, memory, counts, conn, disk
<1>1. ASSUME RowsMove, created' = created, fresh' \in {fresh, None},
             plan' \in {plan, None, dbPlan} \/ (plan # None /\ plan' # None /\ plan'.id = plan.id),
             phase' = "refresh" => UNCHANGED <<phase, plan, fresh, connKept>>
      PROVE  IdsGiven'
  BY <1>1 DEF RowsMove, RolledBack, Commit
<1>2. ASSUME NEW n \in PlanLengths, CreatePlan(n) \/ SaveNewFails(n) PROVE IdsGiven'
  <2>1. plan' = NewPlan(n) /\ created' = created + 1 /\ fresh' = fresh /\ phase' # "refresh"
    BY <1>2 DEF CreatePlan, SaveNewFails
  <2>2. (UNCHANGED conn \/ RolledBack) /\ UNCHANGED disk
    BY <1>2 DEF CreatePlan, SaveNewFails
  <2>3. plan' # None /\ plan'.id = created'  BY <2>1, NewPlanId DEF IInv
  <2> QED BY <2>1, <2>2, <2>3 DEF RolledBack
<1>3. ASSUME NEW n \in PlanLengths, RefreshPlan(n) PROVE IdsGiven'
  <2>1. fresh' = NewPlan(n) /\ created' = created + 1 /\ UNCHANGED <<plan, conn, disk>>
    BY <1>3 DEF RefreshPlan
  <2>2. fresh' # None /\ fresh'.id = created'  BY <2>1, NewPlanId DEF IInv
  <2> QED BY <2>1, <2>2
<1>4. CASE PlanStatement
  <2>1. connPlan' \in Plan /\ connPlan'.id = Saved.id  BY <1>4, StatementRow DEF IInv
  <2>2. UNCHANGED <<plan, fresh, created, dbPlan, dbKept, phase>>  BY <1>4 DEF PlanStatement
  <2>3. CASE phase = "refresh"
    <3>1. fresh # None /\ connPlan'.id = fresh.id /\ fresh.id = created
      BY <2>1, <2>3 DEF Saved, IInv, MemInv, NewPlanOpen
    <3>2. connKept' \in {RowOf(plan), connKept}  BY <1>4, <2>3 DEF PlanStatement
    <3>3. RowOf(plan) # None => plan # None /\ RowOf(plan).id = plan.id  BY DEF RowOf, Is
    <3>4. connKept' # None => connKept'.id < created /\ connKept'.id \in Nat
      <4>1. connKept' \in {None, connPlan, connKept}  BY <3>2 DEF RowOf
      <4> QED BY <2>3, <3>2, <3>3, <4>1
    <3>5. \A p \in {plan', fresh', connPlan', connKept', dbPlan', dbKept'} : p # None => p.id <= created'
      BY <2>1, <2>2, <3>1, <3>4
    <3> QED BY <2>1, <2>2, <2>3, <3>1, <3>4, <3>5
  <2>4. CASE phase # "refresh"
    <3>1. plan # None /\ connPlan'.id = plan.id /\ connKept' = None
      BY <1>4, <2>1, <2>4 DEF Saved, IInv, MemInv, SavesResumable, PlanStatement, PlanSaves
    <3> QED BY <2>2, <2>4, <3>1
  <2> QED BY <2>3, <2>4
<1>5. CASE RefreshSaved
  <2>1. plan' = fresh /\ fresh' = None /\ created' = created /\ phase' = "ready"
    BY <1>5 DEF RefreshSaved
  <2>2. UNCHANGED conn /\ Commit  BY <1>5 DEF RefreshSaved, PlanCommitted
  <2> QED BY <2>1, <2>2 DEF Commit
<1> HIDE DEF IdsGiven
<1>6. CASE CompleteStep
  <2>1. PICK i \in 1..Len(plan.steps) :
           plan.steps[i] = "in_progress" /\ plan' = [plan EXCEPT !.steps[i] = "completed"]
    BY <1>6 DEF CompleteStep, IsFirst, StepsOf
  <2>2. plan \in Plan /\ plan # None  BY <1>6 DEF CompleteStep, MayComplete, IsOpen
  <2>3. plan'.id = plan.id /\ plan' \in Plan  BY <2>1, <2>2, CompleteCounts, SetStep DEF StepStatus
  <2>4. plan' # None  BY <2>3, PlanAssumptions
  <2>5. UNCHANGED <<conn, disk, created, fresh>> /\ phase' # "refresh"  BY <1>6 DEF CompleteStep
  <2> QED BY <1>1, <2>2, <2>3, <2>4, <2>5 DEF RowsMove
<1>7. ASSUME plan # None, MarkPlanCompleted, RowsMove, UNCHANGED <<created, fresh>> PROVE IdsGiven'
  <2>1. plan' = [plan EXCEPT !.status = "completed"] /\ phase' # "refresh"
    BY <1>7 DEF MarkPlanCompleted
  <2>2. plan' \in Plan /\ plan'.id = plan.id  BY <1>7, <2>1, SetStatus
  <2>3. plan' # None  BY <2>2, PlanAssumptions
  <2> QED BY <1>1, <1>7, <2>1, <2>2, <2>3
<1>8. CASE Activate
  <2>0. /\ plan \in Plan /\ plan # None /\ UNCHANGED <<conn, disk, created, fresh>>
    BY <1>8 DEF Activate, IInv, MemInv, PausedInside
  <2>1. ASSUME NEW i \in 1..Len(plan.steps), IsFirst(plan, "pending", i),
               plan' = [plan EXCEPT !.steps[i] = "in_progress"], phase' = "savePlan"
        PROVE  IdsGiven'
    <3>1. plan.steps[i] = "pending"  BY <2>1 DEF IsFirst, StepsOf
    <3>2. plan'.id = plan.id  BY <2>0, <2>1, <3>1, ActivateCounts
    <3>3. plan' \in Plan  BY <2>0, <2>1, SetStep DEF StepStatus
    <3>4. plan' # None  BY <3>3, PlanAssumptions
    <3> QED BY <1>1, <2>0, <2>1, <3>2, <3>4 DEF RowsMove
  <2>2. CASE MarkPlanCompleted  BY <1>7, <2>0, <2>2 DEF RowsMove
  <2> QED BY <1>8, <2>1, <2>2 DEF Activate
<1>9. ASSUME NEW closing \in BOOLEAN, Answer(closing) PROVE IdsGiven'
  <2>1. RowsMove  BY <1>9 DEF RowsMove, Answer, TaskSaved
  <2>2. UNCHANGED <<created, fresh>> /\ phase = "ready"  BY <1>9 DEF Answer
  <2>3. CASE IsOpen(plan) /\ AllDone(plan)  BY <1>7, <1>9, <2>1, <2>2, <2>3 DEF Answer, IsOpen
  <2>4. CASE ~(IsOpen(plan) /\ AllDone(plan))
    <3>1. UNCHANGED <<plan, phase>>  BY <1>9, <2>4 DEF Answer
    <3> QED BY <1>1, <2>1, <2>2, <3>1
  <2> QED BY <2>3, <2>4
<1>11. CASE SaveTask \/ SaveTaskFails \/ SavePlan \/ SavePlanFails \/ SaveNewPlan \/ SaveFallbackFails
  <2>1. phase # "refresh" /\ UNCHANGED <<plan, created, fresh>> /\ phase' # "refresh"
    BY <1>11
       DEF SaveTask, SaveTaskFails, SavePlan, SavePlanFails, SaveNewPlan, SaveFallbackFails,
           AfterTaskSave, TaskRaised, PlanRaised, Fault
  <2>2. RowsMove
    BY <1>11
       DEF SaveTask, SaveTaskFails, SavePlan, SavePlanFails, SaveNewPlan, SaveFallbackFails,
           TaskSaved, TaskRaised, PlanCommitted, PlanRaised, Fault, RowsMove
  <2> QED BY <1>1, <2>1, <2>2
<1>12. CASE RefreshFails
  <2>1. UNCHANGED <<plan, created>> /\ fresh' = None /\ phase' = "ready"
    BY <1>12 DEF RefreshFails, PlanRaised, Fault
  <2>2. RowsMove  BY <1>12 DEF RefreshFails, PlanRaised, Fault, RowsMove
  <2> QED BY <1>1, <2>1, <2>2
<1>13. CASE OthersCommit \/ Revert \/ EarlyFault \/ KeepPlan \/ BeginTurn
  <2>1. UNCHANGED <<plan, created, fresh>> /\ phase # "refresh" /\ phase' # "refresh"
    BY <1>13 DEF OthersCommit, Revert, EarlyFault, KeepPlan, BeginTurn, TaskRaised, Fault
  <2>2. RowsMove
    BY <1>13
       DEF OthersCommit, Revert, EarlyFault, KeepPlan, BeginTurn, TaskSaved, TaskRaised, Fault, RowsMove
  <2> QED BY <1>1, <2>1, <2>2
<1>14. ASSUME NEW newGoal \in BOOLEAN, BeginRun(newGoal) PROVE IdsGiven'
  BY <1>1, <1>14 DEF BeginRun, RowsMove
<1>15. ASSUME NEW outcome \in {"failed", "passed", "other"}, AfterTool(outcome) \/ AfterToolFails(outcome)
       PROVE  IdsGiven'
  <2>1. UNCHANGED <<plan, created, fresh, phase>> /\ phase = "ready"
    BY <1>15 DEF AfterTool, AfterToolFails, TaskRaised, Fault
  <2>2. RowsMove
    BY <1>15 DEF AfterTool, AfterToolFails, TaskSaved, TaskRaised, Fault, RowsMove
  <2> QED BY <1>1, <2>1, <2>2
<1>16. CASE Crash  BY <1>1, <1>16 DEF Crash, RowsMove
<1>17. CASE Load  BY <1>1, <1>17 DEF Load, RowsMove
<1>18. CASE UNCHANGED planVars  BY <1>1, <1>18 DEF planVars, RowsMove
<1> QED
  BY <1>2, <1>3, <1>4, <1>5, <1>6, <1>8, <1>9, <1>11, <1>12, <1>13, <1>14, <1>15, <1>16, <1>17, <1>18
     DEF Next, Saves, Calls

\* The plan under way is on the connection when all its statements have run.
LEMMA WrittenWhole ==
    ASSUME IInv, AllWritten
    PROVE  Saved \in Plan /\ connPlan = Saved
<1>1. Saved \in Plan /\ Len(Saved.steps) \in Nat  BY SavedInOrder DEF IInv, AllWritten, Plan
<1>2. connPlan = Inserted(Saved, written - 2) /\ written - 2 = Len(Saved.steps)
  BY <1>1 DEF IInv, WrittenInv, AllWritten
<1> QED BY <1>1, <1>2, InsertedPart

\* What one statement does to the bounds.
LEMMA StatementLoss ==
    ASSUME IInv, IdsGiven, LossBound, PlanStatement
    PROVE  LossBound'
<1>0. /\ faults \in Nat /\ created \in Nat
      /\ \A p \in {plan, fresh, connPlan, connKept, dbPlan, dbKept} :
            p # None => p \in Plan /\ p.id \in Nat /\ Done(p) \in Nat
  BY DoneType DEF IInv, TypeOK, Plan
<1>1. UNCHANGED <<plan, fresh, phase, faults, dbPlan, dbKept, torn>>
  BY DEF PlanStatement, memory, counts, disk
<1>2. Bound(dbPlan, torn)' /\ Bound(dbKept, TRUE)'  BY <1>1 DEF LossBound, Bound
<1>3. /\ connKept' \in {None, connKept, connPlan}
      /\ connPlan' # connPlan /\ ~half' => connPlan' = Saved
      /\ connPlan' = connPlan => half' = half
  BY DEF PlanStatement, RowOf
<1>4. Bound(connKept, TRUE)'  BY <1>1, <1>3 DEF LossBound, Bound
<1>5. Bound(connPlan, half)'
  <2>1. connPlan' \in Plan /\ connPlan'.id = Saved.id  BY StatementRow DEF IInv
  <2>2. CASE connPlan' = connPlan  BY <1>1, <1>3, <2>2 DEF LossBound, Bound
  <2>3. CASE phase = "refresh"
    <3>1. connPlan'.id = created  BY <2>1, <2>3 DEF Saved, IdsGiven
    <3>2. plan # None => plan.id # connPlan'.id  BY <1>0, <2>3, <3>1 DEF IdsGiven
    <3> QED BY <1>1, <3>2 DEF Bound
  <2>4. CASE phase # "refresh" /\ connPlan' # connPlan
    <3>1. Saved = plan /\ plan \in Plan /\ plan # None /\ Len(plan.steps) \in Nat
      BY <2>4 DEF Saved, IInv, MemInv, SavesResumable, PlanStatement, PlanSaves, TypeOK, Plan
    <3>2. Done(connPlan') <= Done(plan)
      <4>1. ASSUME NEW n \in 0..Len(plan.steps), connPlan' = Inserted(plan, n)
            PROVE  Done(connPlan') <= Done(plan)
        BY <3>1, <4>1, InsertedCounts
      <4>2. CASE \E n \in 0..Len(plan.steps) : connPlan' = Inserted(plan, n)  BY <4>1, <4>2
      <4>3. CASE connPlan' = Header(plan)
        <5>1. CASE RowOf(plan) = None
          BY <3>1, <4>1, <4>3, <5>1 DEF Header
        <5>2. CASE RowOf(plan) # None
          <6> DEFINE r == RowOf(plan)
          <6>1. r \in {connPlan, connKept} /\ r # None /\ r.id = plan.id
            BY <5>2 DEF RowOf, Is
          <6>2. connPlan' = [r EXCEPT !.status = plan.status]  BY <4>3, <5>2 DEF Header
          <6> HIDE DEF r
          <6>3. r \in Plan /\ Done(r) <= Done(plan)  BY <1>0, <3>1, <6>1 DEF LossBound, Bound
          <6>4. plan.status \in {"in_progress", "completed"}  BY <3>1 DEF Plan
          <6> QED BY <6>2, <6>3, <6>4, StatusCounts
        <5> QED BY <5>1, <5>2
      <4> QED BY <3>1, <4>2, <4>3, StatementRow DEF IInv
    <3>3. ~half' => connPlan' = plan  BY <1>3, <2>4, <3>1
    <3>4. Done(plan) \in Nat /\ faults' \in Nat  BY <1>0, <1>1, <3>1
    <3>5. half' \/ /\ Len(connPlan'.steps) = Len(plan'.steps)
                   /\ Done(plan') <= Done(connPlan') + faults' + (IF phase' \in Between THEN 1 ELSE 0)
      BY <1>1, <3>3, <3>4
    <3> QED BY <1>1, <3>2, <3>5 DEF Bound
  <2> QED BY <2>2, <2>3, <2>4
<1> QED BY <1>2, <1>4, <1>5 DEF LossBound

\* Every step keeps the distance between memory and rows.
LEMMA LossStep == ASSUME IInv, IdsGiven, LossBound, [Next]_planVars PROVE LossBound'
<1>0. /\ faults \in Nat /\ created \in Nat
      /\ \A p \in {plan, fresh, connPlan, connKept, dbPlan, dbKept} :
            p # None => p \in Plan /\ p.id \in Nat /\ Done(p) \in Nat
  BY DoneType DEF IInv, TypeOK, Plan
<1> USE DEF memory, counts, conn, disk
<1>1. ASSUME RowsMove, plan' = plan, faults' \in {faults, faults + 1},
             (phase' \in Between \/ phase \notin Between) \/ faults' = faults + 1
      PROVE  LossBound'
  BY <1>0, <1>1 DEF LossBound, Bound, RowsMove, RolledBack, Commit
<1>2. ASSUME RowsMove, plan # None, plan' # None, plan'.id = plan.id,
             Done(plan') = Done(plan), Len(plan'.steps) = Len(plan.steps),
             faults' = faults, phase' \in Between
      PROVE  LossBound'
  BY <1>0, <1>2 DEF LossBound, Bound, RowsMove, RolledBack, Commit
<1>3. ASSUME RowsMove, plan'.id = created + 1 PROVE LossBound'
  <2>1. \A p \in {connPlan, connKept, dbPlan, dbKept} : p # None => p.id # created + 1
    BY <1>0 DEF IdsGiven
  <2> QED BY <1>3, <2>1 DEF LossBound, Bound, RowsMove, RolledBack, Commit
<1>4. CASE SaveTask \/ SaveTaskFails
  <2>1. RowsMove /\ plan' = plan /\ faults' \in {faults, faults + 1}
    BY <1>4 DEF SaveTask, SaveTaskFails, TaskSaved, TaskRaised, Fault, RowsMove
  <2>2. (phase' \in Between \/ phase \notin Between) \/ faults' = faults + 1
    BY <1>4 DEF SaveTask, SaveTaskFails, TaskRaised, Fault, AfterTaskSave, Between
  <2> QED BY <1>1, <2>1, <2>2
<1>5. CASE PlanStatement  BY <1>5, StatementLoss
<1>6. CASE SavePlan
  <2>1. phase = "savePlan" /\ UNCHANGED <<plan, conn, faults>> /\ Commit /\ AllWritten
    BY <1>6 DEF SavePlan, PlanCommitted
  <2>2. plan \in Plan /\ connPlan = plan  BY <2>1, WrittenWhole DEF Saved
  <2>3. Bound(connPlan, half)' /\ Bound(dbPlan, torn)'
    BY <1>0, <2>1, <2>2, DoneType DEF Bound, Commit
  <2>4. Bound(connKept, TRUE)' /\ Bound(dbKept, TRUE)'
    BY <2>1 DEF LossBound, Bound, Commit
  <2> QED BY <2>3, <2>4 DEF LossBound
<1>7. CASE SavePlanFails \/ SaveFallbackFails \/ RefreshFails
  <2>1. RowsMove /\ plan' = plan /\ faults' = faults + 1
    BY <1>7 DEF SavePlanFails, SaveFallbackFails, RefreshFails, PlanRaised, Fault, RowsMove
  <2> QED BY <1>1, <2>1
<1>8. CASE SaveNewPlan
  <2>1. RowsMove /\ plan' = plan /\ faults' = faults /\ phase \notin Between
    BY <1>8 DEF SaveNewPlan, PlanCommitted, RowsMove, Between
  <2> QED BY <1>1, <2>1
<1>9. ASSUME NEW n \in PlanLengths, SaveNewFails(n) \/ CreatePlan(n) PROVE LossBound'
  <2>1. plan' = NewPlan(n) /\ RowsMove  BY <1>9 DEF SaveNewFails, CreatePlan, RowsMove
  <2>2. plan'.id = created + 1  BY <2>1, NewPlanId DEF IInv
  <2> QED BY <1>3, <2>1, <2>2
<1>10. ASSUME NEW n \in PlanLengths, RefreshPlan(n) PROVE LossBound'
  <2>1. RowsMove /\ plan' = plan /\ faults' = faults /\ phase \notin Between
    BY <1>10 DEF RefreshPlan, RowsMove, Between
  <2> QED BY <1>1, <2>1
<1>11. CASE RefreshSaved
  <2>1. phase = "refresh" /\ plan' = fresh /\ UNCHANGED <<conn, faults>> /\ Commit /\ AllWritten
    BY <1>11 DEF RefreshSaved, PlanCommitted
  <2>2. fresh \in Plan /\ connPlan = fresh /\ fresh # None
    BY <2>1, WrittenWhole, PlanAssumptions DEF Saved
  <2>3. Bound(connPlan, half)' /\ Bound(dbPlan, torn)'
    BY <1>0, <2>1, <2>2, DoneType DEF Bound, Commit
  <2>4. connKept # None => connKept.id # fresh.id  BY <2>2 DEF IdsGiven
  <2>5. Bound(connKept, TRUE)' /\ Bound(dbKept, TRUE)'
    BY <2>1, <2>4 DEF Bound, Commit
  <2> QED BY <2>3, <2>5 DEF LossBound
<1>12. CASE OthersCommit \/ Revert \/ EarlyFault \/ KeepPlan \/ BeginTurn
  <2>1. RowsMove /\ plan' = plan /\ faults' \in {faults, faults + 1}
    BY <1>12
       DEF OthersCommit, Revert, EarlyFault, KeepPlan, BeginTurn, TaskSaved, TaskRaised, Fault, RowsMove
  <2>2. phase' \in Between \/ phase \notin Between
    BY <1>12 DEF OthersCommit, Revert, EarlyFault, KeepPlan, BeginTurn, Between
  <2> QED BY <1>1, <2>1, <2>2
<1>13. ASSUME NEW newGoal \in BOOLEAN, BeginRun(newGoal) PROVE LossBound'
  <2>1. RowsMove /\ plan' = plan /\ faults' = faults /\ phase \notin Between
    BY <1>13 DEF BeginRun, RowsMove, Between
  <2> QED BY <1>1, <2>1
<1>14. ASSUME NEW outcome \in {"failed", "passed", "other"}, AfterTool(outcome) \/ AfterToolFails(outcome)
       PROVE  LossBound'
  <2>1. RowsMove /\ plan' = plan /\ faults' \in {faults, faults + 1} /\ phase \notin Between
    BY <1>14 DEF AfterTool, AfterToolFails, TaskSaved, TaskRaised, Fault, RowsMove, Between
  <2> QED BY <1>1, <2>1
<1>15. CASE CompleteStep
  <2>1. PICK i \in 1..Len(plan.steps) :
           plan.steps[i] = "in_progress" /\ plan' = [plan EXCEPT !.steps[i] = "completed"]
    BY <1>15 DEF CompleteStep, IsFirst, StepsOf
  <2>2. plan \in Plan /\ plan # None  BY <1>0, <1>15 DEF CompleteStep, MayComplete, IsOpen
  <2>3. Done(plan') = Done(plan) + 1 /\ plan'.id = plan.id /\ Len(plan'.steps) = Len(plan.steps)
    BY <2>1, <2>2, CompleteCounts
  <2>4. phase \notin Between /\ phase' \in Between /\ UNCHANGED <<conn, disk, faults>>
    BY <1>15 DEF CompleteStep, Between
  <2> QED BY <1>0, <2>2, <2>3, <2>4 DEF LossBound, Bound
<1>16. ASSUME plan # None, MarkPlanCompleted, RowsMove, UNCHANGED faults PROVE LossBound'
  <2>1. plan' = [plan EXCEPT !.status = "completed"] /\ phase' \in Between
    BY <1>16 DEF MarkPlanCompleted, Between
  <2>2. Done(plan') = Done(plan) /\ plan'.id = plan.id /\ Len(plan'.steps) = Len(plan.steps)
    BY <1>0, <1>16, <2>1, StatusCounts
  <2>3. plan' # None  BY <1>0, <1>16, <2>1, SetStatus, PlanAssumptions
  <2> QED BY <1>2, <1>16, <2>1, <2>2, <2>3
<1>17. CASE Activate
  <2>0. plan \in Plan /\ plan # None /\ UNCHANGED <<conn, disk, faults>> /\ RowsMove
    BY <1>0, <1>17 DEF Activate, IInv, MemInv, PausedInside, RowsMove
  <2>1. ASSUME NEW i \in 1..Len(plan.steps), IsFirst(plan, "pending", i),
               plan' = [plan EXCEPT !.steps[i] = "in_progress"], phase' = "savePlan"
        PROVE  LossBound'
    <3>1. plan.steps[i] = "pending"  BY <2>1 DEF IsFirst, StepsOf
    <3>2. Done(plan') = Done(plan) /\ plan'.id = plan.id /\ Len(plan'.steps) = Len(plan.steps)
      BY <2>0, <2>1, <3>1, ActivateCounts
    <3>3. plan' \in Plan  BY <2>0, <2>1, SetStep DEF StepStatus
    <3>4. plan' # None  BY <3>3, PlanAssumptions
    <3> QED BY <1>2, <2>0, <2>1, <3>2, <3>4 DEF Between
  <2>2. CASE MarkPlanCompleted  BY <1>16, <2>0, <2>2
  <2> QED BY <1>17, <2>1, <2>2 DEF Activate
<1>18. ASSUME NEW closing \in BOOLEAN, Answer(closing) PROVE LossBound'
  <2>1. RowsMove  BY <1>18 DEF RowsMove, Answer, TaskSaved
  <2>2. faults' = faults /\ phase = "ready"  BY <1>18 DEF Answer
  <2>3. CASE IsOpen(plan) /\ AllDone(plan)  BY <1>16, <1>18, <2>1, <2>2, <2>3 DEF Answer, IsOpen
  <2>4. CASE ~(IsOpen(plan) /\ AllDone(plan))
    <3>1. plan' = plan /\ phase \notin Between  BY <1>18, <2>4 DEF Answer, Between
    <3> QED BY <1>1, <2>1, <2>2, <3>1
  <2> QED BY <2>3, <2>4
<1>19. CASE Crash
  <2>1. plan' = None  BY <1>19 DEF Crash
  <2> QED BY <2>1 DEF LossBound, Bound
<1>20. CASE Load
  <2>1. plan' = dbPlan /\ UNCHANGED <<conn, disk, faults>>  BY <1>20 DEF Load
  <2>2. connPlan = dbPlan /\ connKept = dbKept /\ half = torn
    BY <1>20 DEF Load, IInv, DoneTogether
  <2>3. dbPlan # None /\ dbKept # None => dbKept.id # dbPlan.id  BY DEF IdsGiven
  <2> QED BY <1>0, <2>1, <2>2, <2>3 DEF LossBound, Bound
<1>21. CASE UNCHANGED planVars
  <2>1. RowsMove /\ UNCHANGED <<plan, faults, phase>>  BY <1>21 DEF planVars, RowsMove
  <2> QED BY <1>1, <2>1
<1> QED
  BY <1>4, <1>5, <1>6, <1>7, <1>8, <1>9, <1>10, <1>11, <1>12, <1>13, <1>14, <1>15, <1>17, <1>18,
     <1>19, <1>20, <1>21
     DEF Next, Saves, Calls

\* The disk is never ahead of the memory.  Unless a part of a save is on it, it
\* has all the plan's steps, and a crash loses at most one completed step, and
\* one more for each save that raised before it.
THEOREM LossBounded == Spec => []BoundedLoss
<1>1. Init => IdsGiven /\ LossBound  BY DEF Init, IdsGiven, LossBound, Bound
<1>2. ASSUME IInv, LossBound PROVE BoundedLoss
  <2> SUFFICES ASSUME IsOpen(plan), dbPlan # None, dbPlan.id = plan.id
               PROVE  /\ Done(dbPlan) <= Done(plan)
                      /\ torn \/ /\ Len(dbPlan.steps) = Len(plan.steps)
                                 /\ Done(plan) - Done(dbPlan) <= 1 + faults
    BY DEF BoundedLoss
  <2>1. Done(plan) \in Nat /\ Done(dbPlan) \in Nat /\ faults \in Nat
    BY <1>2, DoneType DEF IInv, TypeOK, IsOpen
  <2> QED BY <1>2, <2>1 DEF LossBound, Bound, IsOpen
<1> QED BY <1>1, <1>2, IdsStep, LossStep, Invariance, PTL DEF Spec

-------------------------------------------------------------------------------
(* What is saved between two calls.                                        *)

\* As long as no save has raised, connection and disk have what the memory has,
\* apart from what the call under way has changed and will save.
InStep ==
    faults = 0 =>
        /\ phase \in {"ready", "saveBegin", "needPlan"} => connPlan = plan /\ dbPlan = plan
        /\ phase \notin {"down", "saveBegin", "saveTaskDone"} => connTask = task /\ dbTask = task

\* That holds in every reachable state.
LEMMA InStepHolds == Spec => []InStep
<1>1. Init => InStep  BY DEF Init, InStep
<1>2. IInv /\ InStep /\ [Next]_planVars => InStep'
  <2> SUFFICES ASSUME IInv, InStep, [Next]_planVars PROVE InStep'  OBVIOUS
  <2>0. faults \in Nat /\ phase \in Phase  BY DEF IInv, TypeOK
  <2> USE <2>0 DEF InStep, memory, conn, disk, counts, Phase, PlanSaves
  <2>1. CASE SaveTask  BY <2>1 DEF SaveTask, AfterTaskSave, TaskSaved, Commit
  <2>2. CASE \/ SaveTaskFails \/ SavePlanFails \/ SaveFallbackFails \/ EarlyFault \/ RefreshFails
            \/ (\E n \in PlanLengths : SaveNewFails(n))
            \/ (\E outcome \in {"failed", "passed", "other"} : AfterToolFails(outcome))
    <3>1. faults' = faults + 1
      BY <2>2 DEF SaveTaskFails, SavePlanFails, SaveFallbackFails, RefreshFails, EarlyFault,
                  SaveNewFails, AfterToolFails, TaskRaised, PlanRaised, Fault
    <3> QED BY <3>1
  <2>3. CASE PlanStatement  BY <2>3 DEF PlanStatement
  <2>4. CASE SavePlan \/ SaveNewPlan \/ RefreshSaved
    <3>1. UNCHANGED conn /\ Commit /\ AllWritten
      BY <2>4 DEF SavePlan, SaveNewPlan, RefreshSaved, PlanCommitted
    <3>2. connPlan = Saved  BY <3>1, WrittenWhole
    <3>3. plan' = Saved /\ faults' = faults /\ phase \notin {"down", "saveBegin", "saveTaskDone"}
      BY <2>4 DEF SavePlan, SaveNewPlan, RefreshSaved, Saved
    <3>4. task' = task  BY <2>4 DEF SavePlan, SaveNewPlan, RefreshSaved
    <3> QED BY <3>1, <3>2, <3>3, <3>4 DEF Commit
  <2>5. ASSUME NEW newGoal \in BOOLEAN, BeginRun(newGoal) PROVE InStep'
    BY <2>5 DEF BeginRun
  <2>6. CASE KeepPlan \/ BeginTurn  BY <2>6 DEF KeepPlan, BeginTurn
  <2>7. CASE Revert  BY <2>7 DEF Revert, TaskSaved, Commit
  <2>8. CASE OthersCommit  BY <2>8 DEF OthersCommit, Commit
  <2>9. ASSUME NEW n \in PlanLengths, CreatePlan(n) \/ RefreshPlan(n) PROVE InStep'
    BY <2>9 DEF CreatePlan, RefreshPlan
  <2>10. CASE CompleteStep  BY <2>10 DEF CompleteStep
  <2>11. CASE Activate  BY <2>11 DEF Activate, MarkPlanCompleted
  <2>12. ASSUME NEW closing \in BOOLEAN, Answer(closing) PROVE InStep'
    <3>1. phase = "ready" /\ (UNCHANGED <<conn, disk>> \/ TaskSaved(task)) /\ faults' = faults
      BY <2>12 DEF Answer
    <3>2. UNCHANGED <<plan, task, phase>> \/ MarkPlanCompleted  BY <2>12 DEF Answer
    <3> QED BY <3>1, <3>2 DEF TaskSaved, Commit, MarkPlanCompleted
  <2>13. ASSUME NEW outcome \in {"failed", "passed", "other"}, AfterTool(outcome) PROVE InStep'
    BY <2>13 DEF AfterTool, TaskSaved, Commit
  <2>14. CASE Crash  BY <2>14 DEF Crash
  <2>15. CASE Load  BY <2>15 DEF Load, IInv, DoneTogether
  <2>16. CASE UNCHANGED planVars  BY <2>16 DEF planVars
  <2> QED
    BY <2>1, <2>2, <2>3, <2>4, <2>5, <2>6, <2>7, <2>8, <2>9, <2>10, <2>11, <2>12, <2>13, <2>14, <2>15, <2>16
       DEF Next, Saves, Calls
<1> QED BY <1>1, <1>2, Invariance, PTL DEF Spec

\* Without a fault a restart between two calls loses nothing.
THEOREM NothingUnsaved == Spec => [](faults = 0 /\ phase = "ready" => dbPlan = plan /\ dbTask = task)
<1>1. InStep => (faults = 0 /\ phase = "ready" => dbPlan = plan /\ dbTask = task)  BY DEF InStep
<1> QED BY <1>1, InStepHolds, PTL
===============================================================================
