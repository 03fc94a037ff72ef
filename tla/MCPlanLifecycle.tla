---------------------------- MODULE MCPlanLifecycle ----------------------------
(* PlanLifecycle for TLC: two plans of one to three steps (a first, a middle  *)
(* and a last one), and two saves that raise, so that a fault can follow the  *)
(* repair of an earlier one.  Plan!Seq is never enumerated: TLC only tests    *)
(* membership.                                                                *)
EXTENDS PlanLifecycle

-------------------------------------------------------------------------------
(* The planner, whose plans these are.  Here titles are numbers, and an item's *)
(* own title is its place in the list, so that a plan tells where its steps    *)
(* come from.                                                                  *)

StepN(n) == 10 + n
Planner == INSTANCE PlanParser WITH NoTitle <- 0

Items ==
    { [object |-> TRUE, title |-> t, status |-> s, index |-> i] :
        t \in {0, 1}, s \in {"pending", "in_progress", "completed", "done"},
        i \in {<<>>, <<0>>, <<2>>} }
    \cup {[object |-> FALSE]}

\* Lists of up to three items, each named by its place or not at all.
Placed(list) ==
    [n \in DOMAIN list |->
        IF list[n].object /\ list[n].title = 1 THEN [list[n] EXCEPT !.title = n] ELSE list[n]]

ItemLists == {Placed(list) : list \in UNION {[1..n -> Items] : n \in 0..3}}

Texts == [fence : {"none", "object", "other"}, body : {"object", "object in words", "nothing"}]

Reply(text, list) == [text |-> text, objective |-> "o", items |-> list]

\* The place a step came from, and the index it came with.
Place(step) == IF step.title > 10 THEN step.title - 10 ELSE step.title
IndexAt(list, n) == IF list[n].index = <<>> THEN n - 1 ELSE list[n].index[1]

\* The steps of a reply are its items that are objects, each once, by index,
\* and in their order where indices are equal.
ASSUME StepsAreSorted ==
    \A list \in ItemLists :
        LET steps   == Planner!Steps(list)
            from(k) == Place(steps[k])
        IN  /\ {from(k) : k \in DOMAIN steps} = {n \in DOMAIN list : list[n].object}
            /\ \A j, k \in DOMAIN steps : j < k =>
                  \/ IndexAt(list, from(j)) < IndexAt(list, from(k))
                  \/ /\ IndexAt(list, from(j)) = IndexAt(list, from(k))
                     /\ from(j) < from(k)

\* Whatever the LLM answers, if it does, a first plan is what NewPlan says: it
\* has steps, the first is in progress and none is completed.
ASSUME FirstPlanIsNew ==
    \A text \in Texts, list \in ItemLists : \A reply \in {<<>>, <<Reply(text, list)>>} :
        LET steps == Planner!InitialPlan(reply)
        IN  /\ steps # <<>>
            /\ \A k \in DOMAIN steps :
                  steps[k].status = IF k = 1 THEN "in_progress" ELSE "pending"

\* A replan never drops a step of the plan, and leaves it a current step when
\* one is pending.
ASSUME ReplanKeepsSteps ==
    \A list \in ItemLists, done \in 0..2 :
        LET old == [k \in 1..2 |-> [title |-> 1, status |-> IF k <= done THEN "completed"
                                                            ELSE "pending"]]
            new == Planner!Plan(Reply([fence |-> "none", body |-> "object"], list), old)
        IN  new # <<>> =>
                /\ Len(new) >= Len(old)
                /\ Planner!Has(new, "pending") => Planner!Has(new, "in_progress")

\* Without an LLM, a replan leaves at most the one current step there was.
ASSUME HeuristicKeepsOneCurrent ==
    \A statuses \in [1..3 -> Planner!Statuses], words \in SUBSET {"exists", "failed"},
       adds \in SUBSET (1..3) :
        LET old == [k \in 1..3 |-> [title |-> k, status |-> statuses[k]]]
            new == Planner!HeuristicReplan(old, words, adds)
            current(steps) == {k \in DOMAIN steps : steps[k].status = "in_progress"}
        IN  Cardinality(current(old)) <= 1 => Cardinality(current(new)) <= 1
===============================================================================
