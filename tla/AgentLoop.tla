------------------------------- MODULE AgentLoop -------------------------------
(***************************************************************************)
(* A run of the agent: AgentLoop.run on the session's context manager.     *)
(*                                                                         *)
(* Each turn the LLM answers with text or with a batch of tool calls.  The *)
(* calls are handled one after another; each leaves a tool message in the  *)
(* conversation.  Text ends the run unless the plan has open steps.  The   *)
(* plan is that of PlanLifecycle: begin_run, complete_plan_step and        *)
(* update_after_* are its actions, interleaved with what other requests    *)
(* do to the session and with the end of the process.                      *)
(***************************************************************************)
EXTENDS Naturals, Sequences

CONSTANTS
    MaxSteps,       \* max_steps of the service
    MaxBatch,       \* bound: tool calls in one answer of the LLM
    PlanLengths, MaxPlans, MaxFaults, None      \* see PlanLifecycle

ASSUME LoopAssumptions == MaxSteps \in Nat \ {0} /\ MaxBatch \in Nat \ {0}

VARIABLES
    plan, task, signaled, fresh, phase, written, connPlan, connTask, connKept, half,
    dbPlan, dbTask, dbKept, torn, created, faults, stalled, cut,    \* see PlanLifecycle
    pc,             \* where the run is
    step,           \* turns begun
    todo,           \* ids of the batch's calls without a tool message
    messages,       \* the conversation's messages of this run
    status,         \* AgentState.status
    handler,        \* the run has a PermissionHandler
    completions     \* history: plan steps completed in this run

planVars == <<plan, task, signaled, fresh, phase, written, connPlan, connTask, connKept, half,
              dbPlan, dbTask, dbKept, torn, created, faults, stalled, cut>>
loopVars == <<pc, step, todo, messages, status, handler, completions>>
vars     == <<planVars, loopVars>>

P == INSTANCE PlanLifecycle

\* PlanAssumptions, of the constants that are handed on.
ASSUME PlanConstants ==
    /\ PlanLengths \subseteq Nat \ {0}
    /\ MaxPlans \in Nat /\ MaxFaults \in Nat
    /\ None \notin P!Plan \cup P!Task

PC == {"idle", "begin",             \* no run; in begin_run
       "turn", "llm",               \* top of the loop; the LLM is asked
       "tools", "plan", "observe",  \* a call; complete_plan_step; its result
       "finalize", "done"}          \* in update_after_assistant; ended

Status == {"running", "completed", "max_steps", "permission_required", "failed"}

\* A message, and the ids of the calls it makes or answers.
Message == [role : {"user", "nudge", "assistant", "calls", "tool"}, ids : Seq(Nat)]

User           == [role |-> "user", ids |-> <<>>]
Nudge          == [role |-> "nudge", ids |-> <<>>]  \* _PLAN_CONTINUE_NUDGE, a user message
Text           == [role |-> "assistant", ids |-> <<>>]
ToolCalls(ids) == [role |-> "calls", ids |-> ids]
Result(id)     == [role |-> "tool", ids |-> <<id>>]

Init ==
    /\ P!Init
    /\ pc = "idle" /\ step = 0
    /\ todo = <<>> /\ messages = <<>>
    /\ status = "running" /\ handler = FALSE
    /\ completions = 0

End(s) == pc' = "done" /\ status' = s

-------------------------------------------------------------------------------
(* begin_run.                                                              *)

\* MaxPlans leaves room for the plan the run may need.
StartRun(h, newGoal) ==
    /\ pc \in {"idle", "done"}
    /\ created < MaxPlans \/ P!IsOpen(plan)
    /\ P!BeginRun(newGoal)
    /\ pc' = "begin" /\ status' = "running" /\ handler' = h
    /\ step' = 0 /\ todo' = <<>> /\ messages' = <<>> /\ completions' = 0

\* The task and the plan are made and saved; then the user's message is added.
Begin ==
    /\ pc = "begin"
    /\ \/ P!SaveTask \/ P!KeepPlan \/ P!PlanStatement \/ P!SaveNewPlan
       \/ \E n \in PlanLengths : P!CreatePlan(n) \/ P!SaveNewFails(n)
    /\ IF phase' = "ready"
       THEN pc' = "turn" /\ messages' = <<User>>
       ELSE UNCHANGED <<pc, messages>>
    /\ UNCHANGED <<step, todo, status, handler, completions>>

\* The exception leaves AgentService.run: the loop never starts, and the run
\* stays "running".
BeginRaises ==
    /\ pc = "begin"
    /\ P!SaveTaskFails \/ P!SaveFallbackFails
    /\ pc' = "done"
    /\ UNCHANGED <<step, todo, messages, status, handler, completions>>

-------------------------------------------------------------------------------
(* The loop.                                                               *)

\* Mutant: one turn too many.
TurnOffByOne ==
    /\ pc = "turn" /\ step <= MaxSteps
    /\ P!BeginTurn
    /\ step' = step + 1
    /\ pc' = "llm"
    /\ UNCHANGED <<todo, messages, status, handler, completions>>

Turn ==
    /\ pc = "turn" /\ step < MaxSteps
    /\ P!BeginTurn
    /\ step' = step + 1
    /\ pc' = "llm"
    /\ UNCHANGED <<todo, messages, status, handler, completions>>

OutOfSteps ==
    /\ pc = "turn" /\ step = MaxSteps
    /\ End("max_steps")
    /\ UNCHANGED <<planVars, step, todo, messages, handler, completions>>

\* build_context or the request to the LLM raises.
LLMFails ==
    /\ pc = "llm"
    /\ End("failed")
    /\ UNCHANGED <<planVars, step, todo, messages, handler, completions>>

\* Mutant: text is taken for the answer whatever the plan says.
AcceptsAlways(p) == TRUE

\* The gate on an answer.
Accepts(p) == ~P!HasOpenSteps(p)

\* Mutant: a turn that is told to go on does not count.
KeepGoingFree ==
    /\ pc = "llm" /\ ~Accepts(plan)
    /\ messages' = IF messages[Len(messages)] = Nudge
                   THEN messages ELSE messages \o <<Text, Nudge>>
    /\ step' = step - 1
    /\ pc' = "turn"
    /\ UNCHANGED <<planVars, todo, status, handler, completions>>

\* Text while the plan has open steps: the model is told to go on.
KeepGoing ==
    /\ pc = "llm" /\ ~Accepts(plan)
    /\ messages' = messages \o <<Text, Nudge>>
    /\ pc' = "turn"
    /\ UNCHANGED <<planVars, step, todo, status, handler, completions>>

\* Mutant: an answer completes the plan's remaining steps.
AcceptCompletesRest(closing) ==
    /\ pc = "llm" /\ plan # None
    /\ messages' = Append(messages, Text)
    /\ plan' = [plan EXCEPT !.status = "completed",
                            !.steps = [i \in 1..Len(plan.steps) |-> "completed"]]
    /\ connPlan' = plan' /\ dbPlan' = plan'
    /\ End("completed")
    /\ UNCHANGED <<task, signaled, fresh, phase, written, connTask, connKept, half,
                   dbTask, dbKept, torn, created, faults, stalled, cut>>
    /\ UNCHANGED <<step, todo, handler, completions>>

\* Text otherwise is the answer; update_after_assistant may finish the plan.
Accept(closing) ==
    /\ pc = "llm" /\ Accepts(plan)
    /\ messages' = Append(messages, Text)
    /\ P!Answer(closing)
    /\ IF phase' = "ready" THEN End("completed") ELSE pc' = "finalize" /\ UNCHANGED status
    /\ UNCHANGED <<step, todo, handler, completions>>

Finalize ==
    /\ pc = "finalize"
    /\ P!SaveTask \/ P!PlanStatement \/ P!SavePlan
    /\ IF phase' = "ready" THEN End("completed") ELSE UNCHANGED <<pc, status>>
    /\ UNCHANGED <<step, todo, messages, handler, completions>>

\* update_after_assistant raises: the answer stands in the conversation of a
\* failed run.
AcceptRaises ==
    /\ \/ /\ pc = "llm" /\ Accepts(plan) /\ P!EarlyFault
          /\ messages' = Append(messages, Text)
       \/ /\ pc = "finalize" /\ (P!SaveTaskFails \/ P!SavePlanFails)
          /\ UNCHANGED messages
    /\ End("failed")
    /\ UNCHANGED <<step, todo, handler, completions>>

\* A batch of n calls, each with an id of its own.
CallTools(n) ==
    /\ pc = "llm"
    /\ LET ids == [i \in 1..n |-> MaxBatch * step + i]
       IN  messages' = Append(messages, ToolCalls(ids)) /\ todo' = ids
    /\ pc' = "tools"
    /\ UNCHANGED <<planVars, step, status, handler, completions>>

-------------------------------------------------------------------------------
(* _handle_tool_call, for the first call of todo.                          *)

\* complete_plan_step completes the current step; refused, it is a tool like
\* any other.
Signal ==
    /\ pc = "tools"
    /\ P!CompleteStep
    /\ completions' = completions + 1
    /\ pc' = "plan"
    /\ UNCHANGED <<step, todo, messages, status, handler>>

CompletePlanStep ==
    /\ pc = "plan"
    /\ P!SaveTask \/ P!Activate \/ P!PlanStatement \/ P!SavePlan
    /\ pc' = IF phase' = "ready" THEN "observe" ELSE pc
    /\ UNCHANGED <<step, todo, messages, status, handler, completions>>

\* The tool catches the exception and reports it.
CompletePlanStepRaises ==
    /\ pc = "plan"
    /\ P!SaveTaskFails \/ P!SavePlanFails
    /\ pc' = "observe"
    /\ UNCHANGED <<step, todo, messages, status, handler, completions>>

\* What update_after_tool may make of the result.
Outcomes == IF pc = "tools" THEN {"failed", "passed", "other"} ELSE {"other"}

\* Mutant: the tool message carries the id of the batch's last call.
ObservationOfLast == Result(todo[Len(todo)])

\* The tool message of the call handled.
Observation == Result(Head(todo))

\* The result is given to the context manager, then to the conversation.
Observe(outcome) ==
    /\ pc \in {"tools", "observe"} /\ outcome \in Outcomes
    /\ P!AfterTool(outcome)
    /\ messages' = Append(messages, Observation)
    /\ todo' = Tail(todo)

\* The tool ran, failed, was refused by its policy or denied by the user.
Handle(outcome) ==
    /\ Observe(outcome)
    /\ pc' = IF Tail(todo) = <<>> THEN "turn" ELSE "tools"
    /\ UNCHANGED <<step, status, handler, completions>>

\* The result of an ask says permission_required: a command or git tool's
\* when there is no handler, an MCP tool's also when the user denies it.
MustStop(kind, answer) == ~handler \/ (kind = "mcp" /\ answer = "deny")

\* The loop stops with the rest of the batch unhandled.
HardStop(kind, answer, outcome) ==
    /\ pc = "tools" /\ MustStop(kind, answer)
    /\ Observe(outcome)
    /\ End("permission_required")
    /\ UNCHANGED <<step, handler, completions>>

\* update_after_tool raises: the call has run, but gets no tool message.
ObserveRaises(outcome) ==
    /\ pc \in {"tools", "observe"} /\ outcome \in Outcomes
    /\ P!AfterToolFails(outcome)
    /\ End("failed")
    /\ UNCHANGED <<step, todo, messages, handler, completions>>

-------------------------------------------------------------------------------
(* Everything else that happens to the session.                            *)

Load         == P!Load /\ UNCHANGED loopVars
Revert       == P!Revert /\ UNCHANGED loopVars
OthersCommit == P!OthersCommit /\ UNCHANGED loopVars

\* /plan refresh is a command of the CLI, given between runs.
RefreshPlan ==
    /\ pc \in {"idle", "done"}
    /\ \/ \E n \in PlanLengths : P!RefreshPlan(n)
       \/ phase = "refresh" /\ (P!PlanStatement \/ P!RefreshSaved \/ P!RefreshFails)
    /\ UNCHANGED loopVars

\* The conversation of the run is lost: it is persisted after the run.
Crash ==
    /\ P!Crash
    /\ pc' = "idle" /\ step' = 0 /\ todo' = <<>> /\ messages' = <<>>
    /\ status' = "running" /\ handler' = FALSE /\ completions' = 0

LLM   == \/ LLMFails \/ KeepGoing \/ AcceptRaises \/ Finalize
         \/ \E closing \in BOOLEAN : Accept(closing)
         \/ \E n \in 1..MaxBatch : CallTools(n)
Tools == \/ Signal \/ CompletePlanStep \/ CompletePlanStepRaises
         \/ \E outcome \in {"failed", "passed", "other"} :
               \/ Handle(outcome) \/ ObserveRaises(outcome)
               \/ \E kind \in {"builtin", "mcp"}, answer \in {"allow", "deny"} :
                     HardStop(kind, answer, outcome)
Run   == Begin \/ BeginRaises \/ Turn \/ OutOfSteps \/ LLM \/ Tools

Next == \/ \E h, newGoal \in BOOLEAN : StartRun(h, newGoal)
        \/ Run \/ Load \/ Revert \/ OthersCommit \/ RefreshPlan \/ Crash

\* The run's thread goes on: an LLM request and a tool end or time out.
Fairness == WF_vars(Run)

Spec == Init /\ [][Next]_vars /\ Fairness

-------------------------------------------------------------------------------
(* Properties.                                                             *)

TypeOK ==
    /\ P!TypeOK
    /\ pc \in PC /\ status \in Status
    /\ step \in 0..MaxSteps /\ completions \in Nat
    /\ todo \in Seq(Nat) /\ messages \in Seq(Message)
    /\ handler \in BOOLEAN

\* The calls of the message at i that have no tool message, when those that
\* have one have it at once, in order, with nothing in between.
IsCalls(i)   == messages[i].role = "calls"
Answered(i)  ==
    LET ids == messages[i].ids
        n   == Len(messages) - i
    IN  IF n >= Len(ids)
        THEN \A k \in 1..Len(ids) : messages[i + k] = Result(ids[k])
        ELSE /\ \A k \in 1..n : messages[i + k] = Result(ids[k])
             /\ todo = SubSeq(ids, n + 1, Len(ids))

\* Every call of the LLM is followed by its own tool message, once and in the
\* order of the calls; only a batch cut short by a hard stop or an exception
\* lacks some, and a run that answered or used up its turns lacks none.
CallsAnswered ==
    /\ \A i \in 1..Len(messages) : IsCalls(i) => Answered(i)
    /\ todo # <<>> /\ pc = "done" => status \in {"permission_required", "failed"}
    /\ todo # <<>> => \E i \in 1..Len(messages) :
          IsCalls(i) /\ Len(messages) - i < Len(messages[i].ids)

\* complete_plan_step counts once per turn however often a batch calls it, and
\* the turn that answers completes nothing.
OneCompletionPerTurn ==
    /\ completions <= step
    /\ status = "completed" => completions < step

\* A run ends with an answer only when its plan is finished (all of it that a
\* restart found, when somebody's commit had cut a save of it in two), and, if
\* no save has raised since the start, finished on disk together with its task.
AnswerEndsPlan ==
    [][status # "completed" /\ status' = "completed" =>
          /\ plan'.status = "completed"
          /\ faults' = 0 => dbPlan' = plan' /\ dbTask' = task']_vars

\* The run is one sequence of PlanLifecycle's calls: nothing it does to the
\* plan or the task falls outside the calls that module describes.
ImplementsPlan == P!Spec

\* Every run ends, whatever the LLM says: text before the end of the plan uses
\* up a turn, and so does a refused tool.
RunEnds == pc \notin {"idle", "done"} ~> pc \in {"idle", "done"}

\* "DENY writes an observation and goes on" (docs/architecture.md:94, :245):
\* a run with a handler never stops for a permission.  Refuted: an MCP tool
\* denied by the user reports permission_required.
DenyContinues == status = "permission_required" => ~handler
===============================================================================
