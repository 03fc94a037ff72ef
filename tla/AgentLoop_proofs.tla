---------------------------- MODULE AgentLoop_proofs ----------------------------
(***************************************************************************)
(* The loop's safety properties, proved for any number of turns, calls in  *)
(* a batch, plans and faults; what the loop does to the plan is a run of   *)
(* PlanLifecycle, whose theorems are used for it.                          *)
(***************************************************************************)
EXTENDS AgentLoop, SequenceTheorems, TLAPS

\* PlanLifecycle again, with the theorems about it.
Q == INSTANCE PlanLifecycle_proofs

\* In which phase of the plan's calls the run can be where.
PhaseOfPc ==
    /\ pc \in {"turn", "llm", "tools", "observe"} => phase = "ready"
    /\ pc = "idle" => phase \in {"down", "ready", "refresh"}
    /\ pc = "done" => phase \in {"ready", "refresh"}
    /\ pc = "begin" => phase \in {"saveBegin", "needPlan", "saveFirst", "saveNew", "saveFallback"}
    /\ pc = "plan" => phase \in {"saveTask", "activate", "saveTaskDone", "savePlan"}
    /\ pc = "finalize" => phase \in {"saveTaskDone", "savePlan"} /\ plan.status = "completed"

\* The loop never runs without a plan.
LoopHasPlan == pc \notin {"idle", "begin", "done"} => plan # None

\* The calls of a batch are open while they are handled, and left open only by
\* a run that was stopped.
Handling == {"tools", "plan", "observe"}
BatchOpen ==
    /\ pc \in Handling => todo # <<>>
    /\ pc \notin Handling \cup {"done"} => todo = <<>>

\* A turn has one completion to spend, and an answer is a turn that has not.
OneToSpend ==
    /\ completions <= step
    /\ pc \in Handling /\ ~signaled => completions < step
    /\ pc = "llm" => ~signaled
    /\ pc \in {"llm", "finalize"} => completions < step
    /\ status = "completed" => pc = "done" /\ completions < step

LoopType ==
    /\ pc \in PC /\ status \in Status
    /\ step \in 0..MaxSteps /\ completions \in Nat
    /\ todo \in Seq(Nat) /\ messages \in Seq(Message)
    /\ handler \in BOOLEAN

LInv == LoopType /\ PhaseOfPc /\ LoopHasPlan /\ BatchOpen /\ OneToSpend /\ CallsAnswered

-------------------------------------------------------------------------------
(* The run is one sequence of PlanLifecycle's calls.                       *)

\* Every step of the loop is an operation of PlanLifecycle or leaves it alone.
LEMMA RefinesStep == ASSUME [Next]_vars PROVE [P!Next]_(P!planVars)
<1> USE DEF P!Next, P!Saves, P!Calls
<1>1. ASSUME UNCHANGED planVars PROVE [P!Next]_(P!planVars)
  BY <1>1 DEF planVars, P!planVars
<1>2. ASSUME NEW h \in BOOLEAN, NEW newGoal \in BOOLEAN, StartRun(h, newGoal) PROVE P!Next
  BY <1>2 DEF StartRun
<1>3. CASE Begin  BY <1>3 DEF Begin
<1>4. CASE BeginRaises  BY <1>4 DEF BeginRaises
<1>5. CASE Turn  BY <1>5 DEF Turn
<1>6. CASE OutOfSteps \/ LLMFails \/ KeepGoing
  BY <1>1, <1>6 DEF OutOfSteps, LLMFails, KeepGoing
<1>7. CASE AcceptRaises  BY <1>7 DEF AcceptRaises
<1>8. CASE Finalize  BY <1>8 DEF Finalize
<1>9. ASSUME NEW closing \in BOOLEAN, Accept(closing) PROVE P!Next
  BY <1>9 DEF Accept
<1>10. ASSUME NEW n \in 1..MaxBatch, CallTools(n) PROVE [P!Next]_(P!planVars)
  BY <1>1, <1>10 DEF CallTools
<1>11. CASE Signal \/ CompletePlanStep \/ CompletePlanStepRaises
  BY <1>11 DEF Signal, CompletePlanStep, CompletePlanStepRaises
<1>12. ASSUME NEW outcome \in {"failed", "passed", "other"},
              \/ Handle(outcome) \/ ObserveRaises(outcome)
              \/ \E kind \in {"builtin", "mcp"}, answer \in {"allow", "deny"} :
                    HardStop(kind, answer, outcome)
       PROVE  P!Next
  BY <1>12 DEF Handle, ObserveRaises, HardStop, Observe
<1>13. CASE Load \/ Revert \/ OthersCommit \/ Crash
  BY <1>13 DEF Load, Revert, OthersCommit, Crash
<1>14. CASE RefreshPlan  BY <1>14 DEF RefreshPlan
<1>15. CASE UNCHANGED vars  BY <1>1, <1>15 DEF vars
<1> QED
  BY <1>2, <1>3, <1>4, <1>5, <1>6, <1>7, <1>8, <1>9, <1>10, <1>11, <1>12, <1>13, <1>14, <1>15
     DEF Next, Run, LLM, Tools

\* Nothing the loop does to the plan or the task falls outside the calls that
\* PlanLifecycle describes.
THEOREM PlanHolds == Spec => ImplementsPlan
<1>1. Init => P!Init  BY DEF Init
<1> QED BY <1>1, RefinesStep, PTL DEF Spec, ImplementsPlan, P!Spec

\* The two instances of PlanLifecycle are the same.
LEMMA SameStep == [P!Next]_(P!planVars) <=> [Q!Next]_(Q!planVars)
<1> USE DEF P!memory, P!conn, P!disk, P!counts, P!MayFail, P!NewPlan, P!IsOpen, P!AllDone,
            P!StepsOf, P!IsFirst, P!AfterTaskSave, P!MarkPlanCompleted, P!TaskAfter,
            P!Commit, P!RolledBack, P!TaskSaved, P!Fault, P!TaskRaised, P!PlanSaves, P!Saved,
            P!AllWritten, P!PlanCommitted, P!PlanRaised,
            Q!memory, Q!conn, Q!disk, Q!counts, Q!MayFail, Q!NewPlan, Q!IsOpen, Q!AllDone,
            Q!StepsOf, Q!IsFirst, Q!AfterTaskSave, Q!MarkPlanCompleted, Q!TaskAfter,
            Q!Commit, Q!RolledBack, Q!TaskSaved, Q!Fault, Q!TaskRaised, Q!PlanSaves, Q!Saved,
            Q!AllWritten, Q!PlanCommitted, Q!PlanRaised
<1>1. P!Saves <=> Q!Saves
  <2>1. P!SaveTask <=> Q!SaveTask  BY Zenon DEF P!SaveTask, Q!SaveTask
  <2>2. P!SaveTaskFails <=> Q!SaveTaskFails  BY Zenon DEF P!SaveTaskFails, Q!SaveTaskFails
  <2>3. P!SavePlan <=> Q!SavePlan  BY Zenon DEF P!SavePlan, Q!SavePlan
  <2>4. P!SavePlanFails <=> Q!SavePlanFails  BY Zenon DEF P!SavePlanFails, Q!SavePlanFails
  <2>5. P!SaveNewPlan <=> Q!SaveNewPlan  BY Zenon DEF P!SaveNewPlan, Q!SaveNewPlan
  <2>6. P!SaveFallbackFails <=> Q!SaveFallbackFails
    BY Zenon DEF P!SaveFallbackFails, Q!SaveFallbackFails
  <2>7. \A n : P!SaveNewFails(n) <=> Q!SaveNewFails(n)
    BY Zenon DEF P!SaveNewFails, Q!SaveNewFails
  <2>8. P!PlanStatement <=> Q!PlanStatement
    <3>1. \A p, n : P!Inserted(p, n) = Q!Inserted(p, n)  BY Zenon DEF P!Inserted, Q!Inserted
    <3>2. \A p : P!RowOf(p) = Q!RowOf(p)  BY Zenon DEF P!RowOf, Q!RowOf, P!Is, Q!Is
    <3>3. \A p : P!Header(p) = Q!Header(p)  BY Zenon, <3>1, <3>2 DEF P!Header, Q!Header
    <3> QED BY Zenon, <3>1, <3>2, <3>3 DEF P!PlanStatement, Q!PlanStatement
  <2>9. P!RefreshSaved <=> Q!RefreshSaved  BY Zenon DEF P!RefreshSaved, Q!RefreshSaved
  <2>10. P!RefreshFails <=> Q!RefreshFails  BY Zenon DEF P!RefreshFails, Q!RefreshFails
  <2> QED
    BY <2>1, <2>2, <2>3, <2>4, <2>5, <2>6, <2>7, <2>8, <2>9, <2>10 DEF P!Saves, Q!Saves
<1>2. P!Calls <=> Q!Calls
  <2>1. \A newGoal : P!BeginRun(newGoal) <=> Q!BeginRun(newGoal)
    BY Zenon DEF P!BeginRun, Q!BeginRun
  <2>2. P!KeepPlan <=> Q!KeepPlan  BY Zenon DEF P!KeepPlan, Q!KeepPlan
  <2>4. \A n : P!CreatePlan(n) <=> Q!CreatePlan(n)  BY Zenon DEF P!CreatePlan, Q!CreatePlan
  <2>5. \A n : P!RefreshPlan(n) <=> Q!RefreshPlan(n)
    BY Zenon DEF P!RefreshPlan, Q!RefreshPlan
  <2>6. P!BeginTurn <=> Q!BeginTurn  BY Zenon DEF P!BeginTurn, Q!BeginTurn
  <2>7. P!CompleteStep <=> Q!CompleteStep
    BY Zenon DEF P!CompleteStep, Q!CompleteStep, P!MayComplete, Q!MayComplete
  <2>8. P!Activate <=> Q!Activate  BY Zenon DEF P!Activate, Q!Activate
  <2>9. \A closing : P!Answer(closing) <=> Q!Answer(closing)  BY Zenon DEF P!Answer, Q!Answer
  <2>10. \A outcome : /\ P!AfterTool(outcome) <=> Q!AfterTool(outcome)
                      /\ P!AfterToolFails(outcome) <=> Q!AfterToolFails(outcome)
    BY Zenon DEF P!AfterTool, Q!AfterTool, P!AfterToolFails, Q!AfterToolFails
  <2>11. P!EarlyFault <=> Q!EarlyFault  BY Zenon DEF P!EarlyFault, Q!EarlyFault
  <2>12. P!Revert <=> Q!Revert  BY Zenon DEF P!Revert, Q!Revert
  <2> QED
    BY <2>1, <2>2, <2>4, <2>5, <2>6, <2>7, <2>8, <2>9, <2>10, <2>11, <2>12
       DEF P!Calls, Q!Calls
<1>3. P!Crash <=> Q!Crash  BY Zenon DEF P!Crash, Q!Crash
<1>4. P!Load <=> Q!Load  BY Zenon DEF P!Load, Q!Load
<1>5. P!OthersCommit <=> Q!OthersCommit  BY Zenon DEF P!OthersCommit, Q!OthersCommit
<1> QED BY <1>1, <1>2, <1>3, <1>4, <1>5 DEF P!Next, Q!Next, P!planVars, Q!planVars

\* What PlanLifecycle_proofs shows of the plan holds during a run.
LEMMA PlanFacts == Spec => [](Q!IInv /\ Q!InStep)
<1>1. P!Init <=> Q!Init  BY DEF P!Init, Q!Init
<1>2. /\ PlanLengths \subseteq Nat \ {0}
      /\ MaxPlans \in Nat /\ MaxFaults \in Nat
      /\ None \notin Q!Plan \cup Q!Task
  BY PlanConstants DEF P!Plan, Q!Plan, P!Task, Q!Task, P!StepStatus, Q!StepStatus
<1>3. Q!Spec => []Q!IInv  BY <1>2, Q!Invariance
<1>4. Q!Spec => []Q!InStep  BY <1>2, Q!InStepHolds
<1> QED BY <1>1, <1>3, <1>4, SameStep, PlanHolds, PTL DEF ImplementsPlan, P!Spec, Q!Spec

-------------------------------------------------------------------------------
(* The conversation.                                                       *)

\* CallsAnswered's first part, of any messages and open calls.
AnsweredIn(ms, open, i) ==
    LET ids == ms[i].ids
        n   == Len(ms) - i
    IN  IF n >= Len(ids)
        THEN \A k \in 1..Len(ids) : ms[i + k] = Result(ids[k])
        ELSE /\ \A k \in 1..n : ms[i + k] = Result(ids[k])
             /\ open = SubSeq(ids, n + 1, Len(ids))

AllAnswered(ms, open) == \A i \in 1..Len(ms) : ms[i].role = "calls" => AnsweredIn(ms, open, i)

\* Open calls belong to a message that asked for them.
Asked(ms, open) ==
    open # <<>> => \E i \in 1..Len(ms) : ms[i].role = "calls" /\ Len(ms) - i < Len(ms[i].ids)

\* The ids of a batch are a sequence, whatever the message.
LEMMA MessageIds ==
    ASSUME NEW ms \in Seq(Message), NEW i \in 1..Len(ms)
    PROVE  ms[i].ids \in Seq(Nat) /\ Len(ms[i].ids) \in Nat
<1>1. ms[i] \in Message  OBVIOUS
<1>2. \A m \in Message : m.ids \in Seq(Nat)  BY DEF Message
<1> QED BY <1>1, <1>2

\* When no call is open, each has its tool message.
LEMMA NoneOpen ==
    ASSUME NEW ms \in Seq(Message), AllAnswered(ms, <<>>),
           NEW i \in 1..Len(ms), ms[i].role = "calls"
    PROVE  /\ Len(ms) - i >= Len(ms[i].ids)
           /\ \A k \in 1..Len(ms[i].ids) : ms[i + k] = Result(ms[i].ids[k])
<1> DEFINE ids == ms[i].ids
           n == Len(ms) - i
<1>1. ids \in Seq(Nat) /\ Len(ids) \in Nat  BY MessageIds
<1>2. n \in Nat  OBVIOUS
<1>3. ASSUME n < Len(ids) PROVE FALSE
  <2>1. SubSeq(ids, n + 1, Len(ids)) = <<>>
    <3>1. AnsweredIn(ms, <<>>, i)  BY DEF AllAnswered
    <3>2. ~(Len(ms) - i >= Len(ids))  BY <1>1, <1>2, <1>3
    <3> QED BY <3>1, <3>2, Zenon DEF AnsweredIn
  <2> HIDE DEF ids, n
  <2>2. Len(SubSeq(ids, n + 1, Len(ids))) = Len(ids) - n  BY <1>1, <1>2, <1>3
  <2>3. SubSeq(ids, n + 1, Len(ids)) \in Seq(Nat)  BY <1>1, <1>2, <1>3
  <2>4. Len(SubSeq(ids, n + 1, Len(ids))) = 0  BY <2>1, <2>3, EmptySeq
  <2> QED BY <1>1, <1>2, <1>3, <2>2, <2>4
<1>4. n >= Len(ids)  BY <1>1, <1>2, <1>3
<1> QED BY <1>4 DEF AllAnswered, AnsweredIn

\* A message that makes no calls, or new calls, after answered ones.
LEMMA AppendMessage ==
    ASSUME NEW ms \in Seq(Message), AllAnswered(ms, <<>>), NEW m \in Message,
           NEW open \in Seq(Nat), m.role = "calls" => open = m.ids
    PROVE  AllAnswered(Append(ms, m), open)
<1> DEFINE new == Append(ms, m)
<1>1. /\ new \in Seq(Message) /\ Len(new) = Len(ms) + 1 /\ Len(ms) \in Nat
      /\ new[Len(ms) + 1] = m /\ \A j \in 1..Len(ms) : new[j] = ms[j]
  OBVIOUS
<1> HIDE DEF new
<1> SUFFICES ASSUME NEW i \in 1..Len(new), new[i].role = "calls" PROVE AnsweredIn(new, open, i)
  BY DEF AllAnswered, new
<1>2. CASE i = Len(ms) + 1
  <2>1. new[i] = m /\ m.ids = open /\ Len(new) - i = 0  BY <1>1, <1>2
  <2>2. open = SubSeq(open, 1, Len(open)) /\ Len(open) \in Nat  OBVIOUS
  <2>3. CASE Len(open) = 0  BY <2>1, <2>3 DEF AnsweredIn
  <2>4. CASE Len(open) # 0
    <3>1. ~(0 >= Len(open))  BY <2>2, <2>4
    <3>2. \A k \in 1..0 : new[i + k] = Result(open[k])  OBVIOUS
    <3>3. open = SubSeq(open, 0 + 1, Len(open))  BY <2>2
    <3> QED BY <2>1, <3>1, <3>2, <3>3 DEF AnsweredIn
  <2> QED BY <2>3, <2>4
<1>3. CASE i # Len(ms) + 1
  <2>1. i \in 1..Len(ms) /\ new[i] = ms[i]  BY <1>1, <1>3
  <2>2. ms[i].ids \in Seq(Nat) /\ Len(ms[i].ids) \in Nat  BY <2>1, MessageIds
  <2>3. /\ Len(ms) - i >= Len(ms[i].ids)
        /\ \A k \in 1..Len(ms[i].ids) : ms[i + k] = Result(ms[i].ids[k])
    BY <2>1, NoneOpen
  <2>4. ASSUME NEW k \in 1..Len(ms[i].ids) PROVE new[i + k] = ms[i + k]
    <3>1. i + k \in 1..Len(ms)  BY <1>1, <2>1, <2>2, <2>3
    <3> QED BY <1>1, <3>1
  <2>5. Len(new) - i >= Len(new[i].ids)  BY <1>1, <2>1, <2>2, <2>3
  <2> QED BY <2>1, <2>3, <2>4, <2>5 DEF AnsweredIn
<1> QED BY <1>2, <1>3

\* The tool message of the first open call.
LEMMA AppendResult ==
    ASSUME NEW ms \in Seq(Message), NEW open \in Seq(Nat), open # <<>>,
           AllAnswered(ms, open), Asked(ms, open)
    PROVE  LET new == Append(ms, Result(Head(open)))
           IN  AllAnswered(new, Tail(open)) /\ Asked(new, Tail(open))
<1> DEFINE new == Append(ms, Result(Head(open)))
           m == Result(Head(open))
<1>1. m \in Message /\ m.role = "tool"  BY DEF Message, Result
<1>2. /\ new \in Seq(Message) /\ Len(new) = Len(ms) + 1 /\ Len(ms) \in Nat
      /\ new[Len(ms) + 1] = m /\ \A j \in 1..Len(ms) : new[j] = ms[j]
  BY <1>1
<1> HIDE DEF new, m
<1>3. ASSUME NEW i \in 1..Len(new), new[i].role = "calls"
      PROVE  /\ AnsweredIn(new, Tail(open), i)
             /\ Len(ms) - i < Len(ms[i].ids) => Len(Tail(open)) = Len(ms[i].ids) - (Len(ms) - i) - 1
  <2> DEFINE ids == ms[i].ids
             n == Len(ms) - i
  <2>1. i \in 1..Len(ms) /\ new[i] = ms[i] /\ ms[i].role = "calls"  BY <1>1, <1>2, <1>3
  <2>2. ids \in Seq(Nat) /\ Len(ids) \in Nat /\ n \in Nat /\ Len(new) - i = n + 1
    BY <1>2, <2>1, MessageIds
  <2>3. AnsweredIn(ms, open, i)  BY <2>1 DEF AllAnswered
  <2> HIDE DEF ids, n
  <2>4. CASE n >= Len(ids)
    <3>1. \A k \in 1..Len(ids) : ms[i + k] = Result(ids[k])
      BY <2>3, <2>4 DEF AnsweredIn, ids, n
    <3>2. ASSUME NEW k \in 1..Len(ids) PROVE new[i + k] = ms[i + k]
      <4>1. i + k \in 1..Len(ms)  BY <1>2, <2>1, <2>2, <2>4 DEF n
      <4> QED BY <1>2, <4>1
    <3>3. Len(new) - i >= Len(ids)  BY <2>2, <2>4
    <3> QED BY <2>1, <2>2, <2>4, <3>1, <3>2, <3>3 DEF AnsweredIn, ids, n
  <2>5. CASE n < Len(ids)
    <3>1. (\A k \in 1..n : ms[i + k] = Result(ids[k])) /\ open = SubSeq(ids, n + 1, Len(ids))
      BY <2>2, <2>3, <2>5 DEF AnsweredIn, ids, n
    <3>2. Head(open) = ids[n + 1] /\ Tail(open) = SubSeq(ids, n + 2, Len(ids))
          /\ Len(Tail(open)) = Len(ids) - n - 1
      BY <2>2, <2>5, <3>1
    <3>3. ASSUME NEW k \in 1..n PROVE new[i + k] = ms[i + k]
      <4>1. i + k \in 1..Len(ms)  BY <1>2, <2>1, <2>2 DEF n
      <4> QED BY <1>2, <4>1
    <3>4. new[i + n + 1] = Result(ids[n + 1])  BY <1>2, <2>1, <2>2, <3>2 DEF n, m
    <3>5. \A k \in 1..(n + 1) : new[i + k] = Result(ids[k])
      <4> SUFFICES ASSUME NEW k \in 1..(n + 1) PROVE new[i + k] = Result(ids[k])  OBVIOUS
      <4>1. CASE k = n + 1  BY <2>2, <3>4, <4>1
      <4>2. CASE k # n + 1
        <5>1. k \in 1..n  BY <2>2, <4>2
        <5> QED BY <3>1, <3>3, <5>1
      <4> QED BY <4>1, <4>2
    <3>6. CASE n + 1 >= Len(ids)
      <4>1. n + 1 = Len(ids)  BY <2>2, <2>5, <3>6
      <4> QED BY <2>1, <2>2, <3>2, <3>5, <4>1 DEF AnsweredIn, ids, n
    <3>7. CASE n + 1 < Len(ids)
      <4>1. ~(n + 1 >= Len(ids)) /\ n + 2 = (n + 1) + 1  BY <2>2, <3>7
      <4> QED BY <2>1, <2>2, <3>2, <3>5, <4>1 DEF AnsweredIn, ids, n
    <3> QED BY <2>2, <3>6, <3>7
  <2> QED BY <2>2, <2>4, <2>5
<1>4. AllAnswered(new, Tail(open))  BY <1>3 DEF AllAnswered
<1>5. ASSUME Tail(open) # <<>>
      PROVE  \E i \in 1..Len(new) : new[i].role = "calls" /\ Len(new) - i < Len(new[i].ids)
  <2>1. PICK i \in 1..Len(ms) : ms[i].role = "calls" /\ Len(ms) - i < Len(ms[i].ids)
    BY DEF Asked
  <2>2. i \in 1..Len(new) /\ new[i] = ms[i]  BY <1>2
  <2>3. Len(Tail(open)) \in Nat /\ Len(Tail(open)) # 0
    <3>1. Tail(open) \in Seq(Nat)  OBVIOUS
    <3> QED BY <1>5, <3>1, EmptySeq
  <2>4. ms[i].ids \in Seq(Nat) /\ Len(ms[i].ids) \in Nat  BY MessageIds
  <2>5. Len(Tail(open)) = Len(ms[i].ids) - (Len(ms) - i) - 1  BY <1>3, <2>1, <2>2
  <2>6. Len(ms) + 1 - i < Len(ms[i].ids)
    <3> DEFINE a == Len(ms)
               b == Len(ms[i].ids)
               c == Len(Tail(open))
    <3>1. /\ a \in Nat /\ b \in Nat /\ c \in Nat /\ i \in Nat
          /\ c # 0 /\ c = b - (a - i) - 1
      BY <1>2, <2>3, <2>4, <2>5
    <3> HIDE DEF a, b, c
    <3>2. a + 1 - i < b  BY <3>1
    <3> QED BY <3>2 DEF a, b
  <2> QED BY <1>2, <2>1, <2>2, <2>6
<1> QED BY <1>4, <1>5 DEF Asked, new, m

\* CallsAnswered says this of the run's messages.
LEMMA CallsAnsweredIsAbout ==
    CallsAnswered <=> /\ AllAnswered(messages, todo)
                      /\ Asked(messages, todo)
                      /\ todo # <<>> /\ pc = "done" => status \in {"permission_required", "failed"}
BY DEF CallsAnswered, IsCalls, Answered, AllAnswered, AnsweredIn, Asked

-------------------------------------------------------------------------------
(* The inductive invariant, a part at a time.                              *)

\* The ids of a batch.
LEMMA BatchIds ==
    ASSUME step \in Nat, NEW n \in 1..MaxBatch
    PROVE  LET ids == [i \in 1..n |-> MaxBatch * step + i]
           IN  ids \in Seq(Nat) /\ ids # <<>>
<1>1. MaxBatch * step \in Nat  BY LoopAssumptions
<1> DEFINE b == MaxBatch * step
           ids == [i \in 1..n |-> b + i]
<1> HIDE DEF b
<1>2. b \in Nat /\ n \in Nat /\ n # 0  BY <1>1, LoopAssumptions DEF b
<1>3. ids \in Seq(Nat) /\ Len(ids) = n  BY <1>2
<1>4. ids # <<>>  BY <1>2, <1>3, EmptySeq
<1> QED BY <1>3, <1>4 DEF b

\* Kinds of messages.
LEMMA MessageKinds ==
    /\ {User, Nudge, Text} \subseteq Message
    /\ User.role # "calls" /\ Nudge.role # "calls" /\ Text.role # "calls"
    /\ \A ids \in Seq(Nat) : ToolCalls(ids) \in Message /\ ToolCalls(ids).ids = ids
    /\ \A id \in Nat : Result(id) \in Message
<1>1. <<>> \in Seq(Nat) /\ \A id \in Nat : <<id>> \in Seq(Nat)  OBVIOUS
<1> QED BY <1>1 DEF Message, User, Nudge, Text, ToolCalls, Result

\* Every step keeps the types of what the loop holds.
LEMMA TypeStep ==
    ASSUME LoopType, BatchOpen, [Next]_vars
    PROVE  LoopType'
<1> USE DEF LoopType, PC, Status, End
<1>1. ASSUME NEW h \in BOOLEAN, NEW newGoal \in BOOLEAN, StartRun(h, newGoal) PROVE LoopType'
  BY <1>1, LoopAssumptions DEF StartRun
<1>2. CASE Begin
  <2>1. messages' = <<User>> \/ messages' = messages  BY <1>2 DEF Begin
  <2>2. messages' \in Seq(Message)
    <3>1. User \in Message  BY MessageKinds
    <3>2. <<User>> \in Seq(Message)  BY ONLY <3>1
    <3> QED BY <2>1, <3>2
  <2>3. pc' \in PC  BY <1>2 DEF Begin
  <2> QED BY <1>2, <2>2, <2>3 DEF Begin
<1>3. CASE BeginRaises  BY <1>3 DEF BeginRaises
<1>4. CASE Turn  BY <1>4, LoopAssumptions DEF Turn
<1>5. CASE OutOfSteps \/ LLMFails  BY <1>5 DEF OutOfSteps, LLMFails
<1>6. CASE KeepGoing
  <2>1. messages \o <<Text, Nudge>> \in Seq(Message)  BY MessageKinds
  <2> QED BY <1>6, <2>1 DEF KeepGoing
<1>7. ASSUME NEW closing \in BOOLEAN, Accept(closing) PROVE LoopType'
  BY <1>7, MessageKinds DEF Accept
<1>8. CASE Finalize  BY <1>8 DEF Finalize
<1>9. CASE AcceptRaises  BY <1>9, MessageKinds DEF AcceptRaises
<1>10. ASSUME NEW n \in 1..MaxBatch, CallTools(n) PROVE LoopType'
  <2> DEFINE ids == [i \in 1..n |-> MaxBatch * step + i]
  <2>1. ids \in Seq(Nat)  BY BatchIds, LoopAssumptions
  <2> HIDE DEF ids
  <2>2. todo' = ids /\ messages' = Append(messages, ToolCalls(ids))  BY <1>10 DEF CallTools, ids
  <2> QED BY <1>10, <2>1, <2>2, MessageKinds DEF CallTools
<1>11. CASE Signal  BY <1>11 DEF Signal
<1>12. CASE CompletePlanStep \/ CompletePlanStepRaises
  BY <1>12 DEF CompletePlanStep, CompletePlanStepRaises
<1>13. ASSUME NEW outcome, Observe(outcome)
       PROVE  todo' \in Seq(Nat) /\ messages' \in Seq(Message)
  <2>1. todo # <<>>  BY <1>13 DEF Observe, BatchOpen, Handling
  <2>2. Head(todo) \in Nat /\ Tail(todo) \in Seq(Nat)  BY <2>1
  <2> QED BY <1>13, <2>2, MessageKinds DEF Observe, Observation
<1>14. ASSUME NEW outcome, Handle(outcome) PROVE LoopType'
  BY <1>13, <1>14 DEF Handle
<1>15. ASSUME NEW kind, NEW answer, NEW outcome, HardStop(kind, answer, outcome) PROVE LoopType'
  BY <1>13, <1>15 DEF HardStop
<1>16. ASSUME NEW outcome, ObserveRaises(outcome) PROVE LoopType'
  BY <1>16 DEF ObserveRaises
<1>17. CASE Load \/ Revert \/ OthersCommit \/ RefreshPlan
  BY <1>17 DEF Load, Revert, OthersCommit, RefreshPlan, loopVars
<1>19. CASE Crash
  <2>1. <<>> \in Seq(Message) /\ <<>> \in Seq(Nat)  OBVIOUS
  <2>2. 0 \in 0..MaxSteps  BY LoopAssumptions
  <2> QED BY <1>19, <2>1, <2>2 DEF Crash
<1>20. CASE UNCHANGED vars  BY <1>20 DEF vars, loopVars
<1> QED
  BY <1>1, <1>2, <1>3, <1>4, <1>5, <1>6, <1>7, <1>8, <1>9, <1>10, <1>11, <1>12, <1>14, <1>15,
     <1>16, <1>17, <1>19, <1>20
     DEF Next, Run, LLM, Tools

\* The phases of the plan's calls; a call that ends in the middle of one ends
\* with a plan.
LEMMA PhaseStep ==
    ASSUME LoopType, PhaseOfPc, LoopHasPlan, Q!IInv, Q!IInv', [Next]_vars
    PROVE  PhaseOfPc' /\ LoopHasPlan'
<1> USE DEF PhaseOfPc, LoopHasPlan, End, P!memory, P!conn, P!disk, P!counts
<1>0. /\ phase' \in {"saveTask", "activate", "savePlan", "saveTaskDone"} => plan' # None
      /\ phase \in {"saveFirst", "saveNew", "saveFallback"} => plan # None
  BY DEF Q!IInv, Q!MemInv, Q!PausedInside, Q!SavesResumable, Q!NewPlanOpen
<1>1. ASSUME NEW h \in BOOLEAN, NEW newGoal \in BOOLEAN, StartRun(h, newGoal)
      PROVE  PhaseOfPc' /\ LoopHasPlan'
  BY <1>1 DEF StartRun, P!BeginRun
<1>2. CASE Begin
  <2>1. CASE P!SaveTask  BY <1>2, <2>1 DEF Begin, P!SaveTask, P!AfterTaskSave
  <2>2. CASE P!KeepPlan  BY <1>2, <2>2 DEF Begin, P!KeepPlan, P!IsOpen
  <2>3. CASE P!SaveNewPlan  BY <1>0, <1>2, <2>3 DEF Begin, P!SaveNewPlan
  <2>4. ASSUME NEW n, P!CreatePlan(n) \/ P!SaveNewFails(n) PROVE PhaseOfPc' /\ LoopHasPlan'
    BY <1>2, <2>4 DEF Begin, P!CreatePlan, P!SaveNewFails
  <2>5. CASE P!PlanStatement  BY <1>2, <2>5 DEF Begin, P!PlanStatement
  <2> QED BY <1>2, <2>1, <2>2, <2>3, <2>4, <2>5 DEF Begin
<1>3. CASE BeginRaises
  BY <1>3 DEF BeginRaises, P!SaveTaskFails, P!SaveFallbackFails
<1>4. CASE Turn  BY <1>4 DEF Turn, P!BeginTurn
<1>5. CASE OutOfSteps \/ LLMFails \/ KeepGoing
  BY <1>5 DEF OutOfSteps, LLMFails, KeepGoing, planVars
<1>7. ASSUME NEW closing \in BOOLEAN, Accept(closing) PROVE PhaseOfPc' /\ LoopHasPlan'
  <2>1. P!Answer(closing) /\ pc = "llm"  BY <1>7 DEF Accept
  <2>2. CASE UNCHANGED <<plan, task, phase>>  BY <1>7, <2>2 DEF Accept
  <2>3. CASE P!MarkPlanCompleted /\ P!IsOpen(plan)
    <3>1. plan \in Q!Plan  BY <2>3 DEF Q!IInv, Q!TypeOK, P!IsOpen
    <3>2. plan'.status = "completed"  BY <2>3, <3>1, Q!SetStatus DEF P!MarkPlanCompleted
    <3>3. phase' \in {"savePlan", "saveTaskDone"}  BY <2>3 DEF P!MarkPlanCompleted
    <3> QED BY <1>0, <1>7, <3>2, <3>3 DEF Accept
  <2> QED BY <2>1, <2>2, <2>3 DEF P!Answer
<1>8. CASE Finalize
  BY <1>0, <1>8 DEF Finalize, P!SaveTask, P!PlanStatement, P!SavePlan, P!AfterTaskSave
<1>9. CASE AcceptRaises
  BY <1>9 DEF AcceptRaises, P!EarlyFault, P!SaveTaskFails, P!SavePlanFails
<1>10. ASSUME NEW n \in 1..MaxBatch, CallTools(n) PROVE PhaseOfPc' /\ LoopHasPlan'
  BY <1>10 DEF CallTools, planVars
<1>11. CASE Signal  BY <1>0, <1>11 DEF Signal, P!CompleteStep
<1>12. CASE CompletePlanStep
  BY <1>0, <1>12
     DEF CompletePlanStep, P!SaveTask, P!Activate, P!PlanStatement, P!SavePlan, P!AfterTaskSave,
         P!MarkPlanCompleted
<1>13. CASE CompletePlanStepRaises
  BY <1>13 DEF CompletePlanStepRaises, P!SaveTaskFails, P!SavePlanFails
<1>14. ASSUME NEW outcome, Handle(outcome) PROVE PhaseOfPc' /\ LoopHasPlan'
  BY <1>14 DEF Handle, Observe, P!AfterTool
<1>15. ASSUME NEW kind, NEW answer, NEW outcome, HardStop(kind, answer, outcome)
       PROVE  PhaseOfPc' /\ LoopHasPlan'
  BY <1>15 DEF HardStop, Observe, P!AfterTool
<1>16. ASSUME NEW outcome, ObserveRaises(outcome) PROVE PhaseOfPc' /\ LoopHasPlan'
  BY <1>16 DEF ObserveRaises, P!AfterToolFails
<1>17. CASE Load \/ Revert \/ OthersCommit
  BY <1>17 DEF Load, Revert, OthersCommit, loopVars, P!Load, P!Revert, P!OthersCommit, LoopType, PC
<1>18. CASE RefreshPlan
  BY <1>18
     DEF RefreshPlan, loopVars, P!RefreshPlan, P!PlanStatement, P!RefreshSaved, P!RefreshFails
<1>19. CASE Crash  BY <1>19 DEF Crash, P!Crash
<1>20. CASE UNCHANGED vars  BY <1>20 DEF vars, loopVars, planVars
<1> QED
  BY <1>1, <1>2, <1>3, <1>4, <1>5, <1>7, <1>8, <1>9, <1>10, <1>11, <1>12, <1>13, <1>14, <1>15,
     <1>16, <1>17, <1>18, <1>19, <1>20
     DEF Next, Run, LLM, Tools

\* A batch is open while it is handled, and a turn completes one step at most.
LEMMA SpendStep ==
    ASSUME LoopType, PhaseOfPc, BatchOpen, OneToSpend, [Next]_vars
    PROVE  BatchOpen' /\ OneToSpend'
<1> USE DEF BatchOpen, OneToSpend, Handling, LoopType, End, P!memory
<1>0. step \in Nat /\ completions \in Nat  BY LoopAssumptions
<1>1. ASSUME NEW h \in BOOLEAN, NEW newGoal \in BOOLEAN, StartRun(h, newGoal)
      PROVE  BatchOpen' /\ OneToSpend'
  BY <1>1 DEF StartRun
<1>2. CASE Begin
  BY <1>2
     DEF Begin, P!SaveTask, P!KeepPlan, P!PlanStatement, P!SaveNewPlan, P!CreatePlan, P!SaveNewFails
<1>3. CASE BeginRaises
  BY <1>3 DEF BeginRaises, P!SaveTaskFails, P!SaveFallbackFails
<1>4. CASE Turn  BY <1>0, <1>4 DEF Turn, P!BeginTurn
<1>5. CASE OutOfSteps \/ LLMFails \/ KeepGoing
  BY <1>5 DEF OutOfSteps, LLMFails, KeepGoing, planVars
<1>7. ASSUME NEW closing \in BOOLEAN, Accept(closing) PROVE BatchOpen' /\ OneToSpend'
  BY <1>7 DEF Accept, P!Answer
<1>8. CASE Finalize  BY <1>8 DEF Finalize, P!SaveTask, P!PlanStatement, P!SavePlan
<1>9. CASE AcceptRaises
  BY <1>9 DEF AcceptRaises, P!EarlyFault, P!SaveTaskFails, P!SavePlanFails
<1>10. ASSUME NEW n \in 1..MaxBatch, CallTools(n) PROVE BatchOpen' /\ OneToSpend'
  <2> DEFINE ids == [i \in 1..n |-> MaxBatch * step + i]
  <2>1. ids # <<>>  BY <1>0, BatchIds
  <2> HIDE DEF ids
  <2>2. todo' = ids  BY <1>10 DEF CallTools, ids
  <2> QED BY <1>10, <2>1, <2>2 DEF CallTools, planVars
<1>11. CASE Signal  BY <1>0, <1>11 DEF Signal, P!CompleteStep, P!MayComplete
<1>12. CASE CompletePlanStep
  BY <1>12 DEF CompletePlanStep, P!SaveTask, P!Activate, P!PlanStatement, P!SavePlan
<1>13. CASE CompletePlanStepRaises
  BY <1>13 DEF CompletePlanStepRaises, P!SaveTaskFails, P!SavePlanFails
<1>14. ASSUME NEW outcome, Handle(outcome) PROVE BatchOpen' /\ OneToSpend'
  BY <1>14 DEF Handle, Observe, P!AfterTool
<1>15. ASSUME NEW kind, NEW answer, NEW outcome, HardStop(kind, answer, outcome)
       PROVE  BatchOpen' /\ OneToSpend'
  BY <1>15 DEF HardStop, Observe, P!AfterTool
<1>16. ASSUME NEW outcome, ObserveRaises(outcome) PROVE BatchOpen' /\ OneToSpend'
  BY <1>16 DEF ObserveRaises, P!AfterToolFails
<1>17. CASE Load \/ Revert \/ OthersCommit
  BY <1>17 DEF Load, Revert, OthersCommit, loopVars, P!Load, P!Revert, P!OthersCommit
<1>18. CASE RefreshPlan
  BY <1>18
     DEF RefreshPlan, loopVars, P!RefreshPlan, P!PlanStatement, P!RefreshSaved, P!RefreshFails
<1>19. CASE Crash  BY <1>19 DEF Crash
<1>20. CASE UNCHANGED vars  BY <1>20 DEF vars, loopVars, planVars
<1> QED
  BY <1>1, <1>2, <1>3, <1>4, <1>5, <1>7, <1>8, <1>9, <1>10, <1>11, <1>12, <1>13, <1>14, <1>15,
     <1>16, <1>17, <1>18, <1>19, <1>20
     DEF Next, Run, LLM, Tools

\* The conversation: messages are added when no call is open, a tool message is
\* the first open call's.
LEMMA AnsweredStep ==
    ASSUME LoopType, BatchOpen, CallsAnswered, LoopType', [Next]_vars
    PROVE  CallsAnswered'
<1>0. /\ AllAnswered(messages, todo) /\ Asked(messages, todo)
      /\ todo # <<>> /\ pc = "done" => status \in {"permission_required", "failed"}
      /\ messages \in Seq(Message) /\ todo \in Seq(Nat)
  BY CallsAnsweredIsAbout DEF LoopType
<1> SUFFICES /\ AllAnswered(messages', todo') /\ Asked(messages', todo')
             /\ todo' # <<>> /\ pc' = "done" => status' \in {"permission_required", "failed"}
  BY DEF CallsAnswered, IsCalls, Answered, AllAnswered, AnsweredIn, Asked
<1> DEFINE Goal == /\ AllAnswered(messages', todo') /\ Asked(messages', todo')
                   /\ todo' # <<>> /\ pc' = "done" => status' \in {"permission_required", "failed"}
<1> USE DEF End
\* No message yet, or the user's.
<1>1. AllAnswered(<<>>, <<>>) /\ AllAnswered(<<User>>, <<>>)
  BY DEF AllAnswered, User
<1>2. \A ms : Asked(ms, <<>>)  BY DEF Asked
<1>3. ASSUME NEW h, NEW newGoal, StartRun(h, newGoal) PROVE Goal
  BY <1>1, <1>2, <1>3 DEF StartRun
<1>4. CASE Begin
  <2>1. todo = <<>> /\ todo' = <<>>  BY <1>4 DEF Begin, BatchOpen, Handling
  <2>2. messages' = <<User>> \/ messages' = messages  BY <1>4 DEF Begin
  <2> QED BY <1>0, <1>1, <1>2, <2>1, <2>2
\* The messages stay, and so do the open calls.
<1>5. ASSUME UNCHANGED <<messages, todo>>,
             \/ pc' # "done" \/ status' \in {"permission_required", "failed"} \/ todo = <<>>
             \/ UNCHANGED <<pc, status>>
      PROVE  Goal
  BY <1>0, <1>5
<1>6. CASE BeginRaises \/ Turn \/ OutOfSteps \/ LLMFails \/ Finalize
  BY <1>5, <1>6 DEF BeginRaises, Turn, OutOfSteps, LLMFails, Finalize, BatchOpen, Handling
<1>7. CASE Signal \/ CompletePlanStep \/ CompletePlanStepRaises
  BY <1>5, <1>7 DEF Signal, CompletePlanStep, CompletePlanStepRaises
<1>8. ASSUME NEW outcome, ObserveRaises(outcome) PROVE Goal
  BY <1>5, <1>8 DEF ObserveRaises
<1>9. CASE Load \/ Revert \/ OthersCommit \/ RefreshPlan \/ UNCHANGED vars
  BY <1>5, <1>9 DEF Load, Revert, OthersCommit, RefreshPlan, vars, loopVars
<1>10. CASE Crash  BY <1>1, <1>2, <1>10 DEF Crash
\* Text is added when no call is open.
<1>11. ASSUME todo = <<>> PROVE AllAnswered(Append(messages, Text), <<>>)
  BY <1>0, <1>11, AppendMessage, MessageKinds
<1>12. CASE KeepGoing
  <2>1. todo = <<>> /\ todo' = <<>> /\ messages' = messages \o <<Text, Nudge>>
    BY <1>12 DEF KeepGoing, BatchOpen, Handling
  <2>2. messages' = Append(Append(messages, Text), Nudge)
    BY <1>0, <2>1, MessageKinds
  <2>3. Append(messages, Text) \in Seq(Message)  BY <1>0, MessageKinds
  <2>4. AllAnswered(messages', <<>>)
    <3>1. AllAnswered(Append(messages, Text), <<>>)  BY <1>11, <2>1
    <3>2. Nudge \in Message /\ Nudge.role # "calls"  BY MessageKinds
    <3>3. <<>> \in Seq(Nat)  OBVIOUS
    <3> QED BY <2>2, <2>3, <3>1, <3>2, <3>3, AppendMessage
  <2> QED BY <1>2, <2>1, <2>4
<1>13. ASSUME NEW closing, Accept(closing) PROVE Goal
  BY <1>2, <1>11, <1>13 DEF Accept, BatchOpen, Handling
<1>14. CASE AcceptRaises
  BY <1>0, <1>2, <1>11, <1>14 DEF AcceptRaises, BatchOpen, Handling
\* A batch.
<1>15. ASSUME NEW n \in 1..MaxBatch, CallTools(n) PROVE Goal
  <2>1. /\ todo = <<>> /\ pc' = "tools" /\ todo' \in Seq(Nat)
        /\ messages' = Append(messages, ToolCalls(todo'))
    BY <1>15 DEF CallTools, BatchOpen, Handling, LoopType
  <2>2. ToolCalls(todo') \in Message /\ ToolCalls(todo').ids = todo'
    BY <2>1, MessageKinds
  <2>3. AllAnswered(messages', todo')  BY <1>0, <2>1, <2>2, AppendMessage
  <2>4. ASSUME todo' # <<>>
        PROVE  \E i \in 1..Len(messages') :
                  messages'[i].role = "calls" /\ Len(messages') - i < Len(messages'[i].ids)
    <3> DEFINE i == Len(messages) + 1
    <3>1. Len(messages') = i /\ i \in Nat /\ messages'[i] = ToolCalls(todo') /\ i \in 1..i
      BY <1>0, <2>1, <2>2
    <3>2. Len(todo') \in Nat /\ Len(todo') # 0  BY <2>1, <2>4, EmptySeq
    <3>3. messages'[i].role = "calls" /\ messages'[i].ids = todo'
      BY <3>1 DEF ToolCalls
    <3> HIDE DEF i
    <3>4. i - i < Len(todo')  BY <3>1, <3>2
    <3> QED BY <3>1, <3>3, <3>4
  <2> QED BY <2>1, <2>3, <2>4 DEF Asked
\* The tool message of the first open call.
<1>16. ASSUME NEW outcome, Observe(outcome)
       PROVE  AllAnswered(messages', todo') /\ Asked(messages', todo')
  <2>1. todo # <<>>  BY <1>16 DEF Observe, BatchOpen, Handling
  <2> QED BY <1>0, <1>16, <2>1, AppendResult DEF Observe, Observation
<1>17. ASSUME NEW outcome, Handle(outcome) PROVE Goal
  BY <1>16, <1>17 DEF Handle
<1>18. ASSUME NEW kind, NEW answer, NEW outcome, HardStop(kind, answer, outcome) PROVE Goal
  BY <1>16, <1>18 DEF HardStop
<1> QED
  BY <1>3, <1>4, <1>6, <1>7, <1>8, <1>9, <1>10, <1>12, <1>13, <1>14, <1>15, <1>17, <1>18
     DEF Next, Run, LLM, Tools

\* The invariant of the loop holds in every reachable state.
LEMMA LoopInvariance == Spec => []LInv
<1>1. Init => LInv
  <2> SUFFICES ASSUME Init PROVE LInv  OBVIOUS
  <2>1. LoopType
    <3>1. <<>> \in Seq(Message) /\ <<>> \in Seq(Nat)  OBVIOUS
    <3>2. 0 \in 0..MaxSteps  BY LoopAssumptions
    <3> QED BY <3>1, <3>2 DEF Init, LoopType, PC, Status
  <2>2. PhaseOfPc /\ LoopHasPlan /\ BatchOpen /\ OneToSpend
    BY DEF Init, P!Init, PhaseOfPc, LoopHasPlan, BatchOpen, Handling, OneToSpend
  <2>3. CallsAnswered  BY CallsAnsweredIsAbout DEF Init, AllAnswered, Asked
  <2> QED BY <2>1, <2>2, <2>3 DEF LInv
<1>2. LInv /\ Q!IInv /\ Q!IInv' /\ [Next]_vars => LInv'
  BY TypeStep, PhaseStep, SpendStep, AnsweredStep DEF LInv
<1> QED BY <1>1, <1>2, PlanFacts, PTL DEF Spec

-------------------------------------------------------------------------------
(* The properties.                                                         *)

\* Variables keep their types.
THEOREM TypeCorrect == Spec => []TypeOK
<1>1. Q!IInv => P!TypeOK
  BY DEF Q!IInv, Q!TypeOK, P!TypeOK, Q!Plan, P!Plan, Q!Task, P!Task, Q!Phase, P!Phase,
         Q!PlanSaves, P!PlanSaves, Q!StepStatus, P!StepStatus
<1>2. LInv => LoopType  BY DEF LInv
<1>3. LoopType /\ P!TypeOK => TypeOK  BY DEF LoopType, TypeOK
<1> QED BY <1>1, <1>2, <1>3, LoopInvariance, PlanFacts, PTL

\* Every tool call has its own tool message, in order, unless the run was cut
\* short (AgentLoop._handle_tool_call and the loop around it).
THEOREM CallsAnsweredHolds == Spec => []CallsAnswered
BY LoopInvariance, PTL DEF LInv

\* complete_plan_step counts once a turn, and not in the turn that answers.
THEOREM OneCompletionHolds == Spec => []OneCompletionPerTurn
<1>1. LInv => OneCompletionPerTurn  BY DEF LInv, OneToSpend, OneCompletionPerTurn
<1> QED BY <1>1, LoopInvariance, PTL

\* A run that ends with an answer ends with its plan finished, in memory and,
\* when no save has raised, on disk (update_after_assistant, the loop's gate).
THEOREM AnswerEndsPlanHolds == Spec => AnswerEndsPlan
<1> DEFINE Ended == /\ plan'.status = "completed"
                    /\ faults' = 0 => dbPlan' = plan' /\ dbTask' = task'
<1>1. ASSUME LInv, Q!IInv, Q!IInv', Q!InStep', [Next]_vars,
             status # "completed", status' = "completed"
      PROVE  Ended
  \* Only an answer that needs no save, and the last save of one that does,
  \* end a run so.
  <2>1. phase' = "ready" /\ (Finalize \/ \E closing \in BOOLEAN : Accept(closing))
    <3> USE <1>1 DEF End
    <3>1. CASE Next
      <4>1. ~(\E h, newGoal \in BOOLEAN : StartRun(h, newGoal))  BY DEF StartRun
      <4>2. ~(Begin \/ BeginRaises \/ Turn \/ OutOfSteps)
        BY DEF Begin, BeginRaises, Turn, OutOfSteps
      <4>3. ~(LLMFails \/ KeepGoing \/ AcceptRaises \/ \E n \in 1..MaxBatch : CallTools(n))
        BY DEF LLMFails, KeepGoing, AcceptRaises, CallTools
      <4>4. ~Tools
        BY DEF Tools, Signal, CompletePlanStep, CompletePlanStepRaises, Handle, ObserveRaises,
               HardStop
      <4>5. ~(Load \/ Revert \/ OthersCommit \/ Crash \/ RefreshPlan)
        BY DEF Load, Revert, OthersCommit, Crash, RefreshPlan, loopVars
      <4>6. Finalize => phase' = "ready"  BY DEF Finalize
      <4>7. \A closing \in BOOLEAN : Accept(closing) => phase' = "ready"  BY DEF Accept
      <4> QED BY <3>1, <4>1, <4>2, <4>3, <4>4, <4>5, <4>6, <4>7 DEF Next, Run, LLM
    <3>2. ~UNCHANGED vars  BY DEF vars, loopVars
    <3> QED BY <1>1, <3>1, <3>2
  <2>2. faults' = 0 => dbPlan' = plan' /\ dbTask' = task'
    BY <1>1, <2>1 DEF Q!InStep
  <2>3. CASE Finalize
    <3>1. plan.status = "completed"
      BY <1>1, <2>3 DEF Finalize, LInv, PhaseOfPc
    <3>2. plan' = plan
      BY <2>3 DEF Finalize, P!SaveTask, P!PlanStatement, P!SavePlan, P!memory
    <3> QED BY <2>2, <3>1, <3>2
  <2>4. ASSUME NEW closing \in BOOLEAN, Accept(closing) PROVE Ended
    <3>1. pc = "llm" /\ Accepts(plan) /\ P!Answer(closing)  BY <2>4 DEF Accept
    <3>2. ~P!MarkPlanCompleted  BY <2>1 DEF P!MarkPlanCompleted
    <3>3. plan' = plan /\ ~(P!IsOpen(plan) /\ P!AllDone(plan))
      BY <3>1, <3>2 DEF P!Answer
    <3>4. ~P!IsOpen(plan)  BY <3>1, <3>3 DEF Accepts, P!HasOpenSteps
    <3>5. plan # None  BY <1>1, <3>1 DEF LInv, LoopHasPlan
    <3> QED BY <2>2, <3>3, <3>4, <3>5 DEF P!IsOpen
  <2> QED BY <2>1, <2>3, <2>4
<1>2. LInv /\ Q!IInv /\ Q!IInv' /\ Q!InStep' /\ [Next]_vars =>
         [status # "completed" /\ status' = "completed" => Ended]_vars
  BY <1>1
<1> QED BY <1>2, LoopInvariance, PlanFacts, PTL DEF Spec, AnswerEndsPlan

===============================================================================
