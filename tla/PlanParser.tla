------------------------------- MODULE PlanParser -------------------------------
(***************************************************************************)
(* What the planner makes of the text an LLM answers with: parse_plan_json *)
(* and PlannerService.  A text is what the parser can find in it: an       *)
(* object by itself, one with words around it, another JSON value, or      *)
(* nothing; in a fenced block, if it has one, or else in the whole text.   *)
(* A step of a plan is its title and status; its index is its place.       *)
(***************************************************************************)
EXTENDS Integers, Sequences, SequencesExt

CONSTANTS
    NoTitle,        \* a title that is missing, as is the description
    StepN(_)        \* the title the n-th item gets instead

Statuses == {"pending", "in_progress", "completed", "failed", "skipped", "blocked"}

\* _loads_json_object
HasObject(text) ==
    (IF text.fence # "none" THEN text.fence ELSE text.body) \in {"object", "object in words"}

\* The n-th item of "steps"; one that is no object is skipped.  index is <<>>
\* when it is missing or no number, and counts from 0.
Parsed(item, n) ==
    [title  |-> IF item.title = NoTitle THEN StepN(n) ELSE item.title,
     status |-> IF item.status \in Statuses THEN item.status ELSE "pending",
     index  |-> IF item.index = <<>> THEN n - 1 ELSE item.index[1]]

\* The items in the order of their indices, which they lose.  Equal indices
\* keep the order they came in.
Steps(items) ==
    LET objects == {n \in DOMAIN items : items[n].object}
        step    == [n \in objects |-> Parsed(items[n], n)]
        before(m, n) == \/ step[m].index < step[n].index
                        \/ step[m].index = step[n].index /\ m < n
        order   == SetToSortSeq(objects, before)
    IN  [k \in DOMAIN order |-> [title |-> step[order[k]].title, status |-> step[order[k]].status]]

Has(steps, status) == \E k \in DOMAIN steps : steps[k].status = status

\* The first pending step becomes the current one, unless there is one.
WithCurrent(steps) ==
    IF Has(steps, "in_progress") \/ ~Has(steps, "pending") THEN steps
    ELSE LET k == SelectInSeq(steps, LAMBDA s : s.status = "pending")
         IN  [steps EXCEPT ![k].status = "in_progress"]

\* A first plan: whatever the LLM says has been done already, nothing has.
FirstPlan(steps) ==
    [k \in DOMAIN steps |->
        [steps[k] EXCEPT !.status = IF k = 1 THEN "in_progress" ELSE "pending"]]

\* With no step to go on with, the first one is taken up again.
Replanned(steps) ==
    IF Has(steps, "in_progress") \/ Has(steps, "pending") THEN WithCurrent(steps)
    ELSE [steps EXCEPT ![1].status = "in_progress"]

\* A shorter list does not replace a longer one: it tells the status of the
\* steps that share a place with it, or else a title.
Merged(old, new) ==
    LET titled(t) == {k \in DOMAIN new : new[k].title = t}
        last(K)   == CHOOSE k \in K : \A j \in K : j <= k
        told(k)   == IF k \in DOMAIN new THEN new[k].status
                     ELSE IF titled(old[k].title) # {} THEN new[last(titled(old[k].title))].status
                     ELSE old[k].status
    IN  WithCurrent([k \in DOMAIN old |-> [old[k] EXCEPT !.status = told(k)]])

\* parse_plan_json; old is <<>> for a first plan, and <<>> the result when it
\* raises PlanParseError.
Plan(reply, old) ==
    LET steps == Steps(reply.items)
    IN  IF \/ ~HasObject(reply.text)
           \/ reply.objective = "" /\ old = <<>>
           \/ steps = <<>>
        THEN <<>>
        ELSE IF old = <<>> THEN FirstPlan(steps)
        ELSE IF Len(steps) < Len(old) THEN Merged(old, Replanned(steps))
        ELSE Replanned(steps)

-----------------------------------------------------------------------------
\* PlannerService

HeuristicLength == 4

Heuristic == FirstPlan([k \in 1..HeuristicLength |-> [title |-> StepN(k), status |-> "pending"]])

\* create_initial_plan: with no LLM, one that raises, or a text that is no plan,
\* the heuristic one.  reply is <<>> in the first two cases.
InitialPlan(reply) ==
    IF reply = <<>> \/ Plan(reply[1], <<>>) = <<>> THEN Heuristic ELSE Plan(reply[1], <<>>)

\* _heuristic_replan: the words of the observation skip a step that adds what
\* is there already, and block the current one.
HeuristicReplan(steps, words, adds) ==
    LET first(K) == CHOOSE k \in K : \A j \in K : k <= j
        set(s, k, status) == [s EXCEPT ![k].status = status]
        toSkip  == {k \in DOMAIN steps : /\ steps[k].status = "in_progress"
                                         /\ steps[k].title \in adds}
        pending == {k \in DOMAIN steps : steps[k].status = "pending"}
        dropped == set(steps, first(toSkip), "skipped")
        skipped == IF "exists" \notin words \/ toSkip = {} THEN steps
                   ELSE IF pending = {} THEN dropped
                   ELSE set(dropped, first(pending), "in_progress")
        current == {k \in DOMAIN skipped : skipped[k].status = "in_progress"}
    IN  IF "failed" \notin words \/ current = {} THEN skipped
        ELSE set(skipped, first(current), "blocked")

\* Then the plan is completed.
IsDone(steps) == \A k \in DOMAIN steps : steps[k].status \in {"completed", "skipped"}
===============================================================================
