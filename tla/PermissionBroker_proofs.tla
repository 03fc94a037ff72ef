------------------------ MODULE PermissionBroker_proofs ------------------------
(***************************************************************************)
(* The broker's safety properties, proved for any number of sessions,      *)
(* runs, REST calls and requests.                                          *)
(***************************************************************************)
EXTENDS PermissionBroker, TLAPS

Asking == {"asked", "waiting", "woken", "checked"}      \* no verdict yet

\* A run under way has a session; a thread inside an ask has a session, a
\* request and (a run) a tool.
AskHasOperands ==
    /\ \A t \in Runs : pc[t] = "idle" => session[t] \in Sessions
    /\ \A t \in Threads : pc[t] \in Asking \cup {"popping", "returning"} =>
        /\ session[t] \in Sessions
        /\ req[t] \in RequestId
        /\ t \in Runs => tool[t] \in Tool

\* Two threads never hold the same request.
OneOwner ==
    \A t, u \in Threads : req[t] # None /\ req[t] = req[u] => t = u

\* A thread that has not been told a verdict has an open request.
OpenWhileAsking ==
    \A t \in Threads : pc[t] \in Asking => verdict[req[t]] = "open"

\* What stands in a slot was acknowledged for that slot's request.
DecisionIsAcked ==
    \A r \in RequestId : slot[r].decision # None => slot[r].decision \in acks[r]

\* A thread past the check of slot.decision still finds a decision there.
CheckedHasDecision ==
    \A t \in Threads : pc[t] = "checked" => slot[req[t]].decision # None

\* An answer in time has set the event its thread waits on.
InTimeSetsEvent ==
    /\ \A t \in Threads : pc[t] = "waiting" /\ req[t] \in inTime =>
          slot[req[t]].event
    /\ \A t \in Threads : pc[t] = "asked" => req[t] \notin inTime
    /\ \A r \in inTime : verdict[r] = "open" =>
          \E t \in Threads : req[t] = r /\ pc[t] \in Asking

\* From on_permission_wait until the verdict the run's row says
\* waiting_permission; a row that still says so in the loop belongs to a run
\* that has asked.
StatusFollows ==
    \A t \in Runs :
        /\ pc[t] \in Asking => status[t] = "waiting_permission"
        /\ pc[t] = "idle" /\ status[t] = "waiting_permission" =>
              req[t] \in RequestId

IInv ==
    /\ TypeOK
    /\ SlotOwnership
    /\ AskHasOperands
    /\ OneOwner
    /\ OpenWhileAsking
    /\ DecisionIsAcked
    /\ CheckedHasDecision
    /\ InTimeSetsEvent
    /\ NoTimelyAnswerLost
    /\ StatusFollows
    /\ StatusProjection

-------------------------------------------------------------------------------
USE DEF Threads

\* What decide and cancel leave in a slot is a slot.
LEMMA SlotUpdates ==
    ASSUME NEW x \in Slot, NEW d \in Decision
    PROVE  /\ [x EXCEPT !.cancelled = TRUE, !.event = TRUE] \in Slot
           /\ [x EXCEPT !.decision = d, !.event = TRUE] \in Slot
BY DEF Slot

\* The reachable states have the types TypeOK gives them.
LEMMA TypeStep == ASSUME IInv, [Next]_vars PROVE TypeOK'
<1> USE DEF TypeOK, AskHasOperands, Contract!Verdict, Contract!Decision,
        Contract!NoVerdict, Decision, Slot, RunStatus, Tool, Waiting, PC,
        NewSlot, Asking, history, brokerVars
<1> HIDE DEF Slot
<1> NewSlot \in Slot BY DEF Slot
<1> TypeOK /\ AskHasOperands  BY DEF IInv
<1>1. ASSUME NEW t \in Runs, NEW s \in Sessions, StartRun(t, s) PROVE TypeOK'
  BY <1>1 DEF StartRun
<1>2. ASSUME NEW t \in Runs, FinishRun(t) PROVE TypeOK'
  BY <1>2 DEF FinishRun
<1>3. ASSUME NEW t \in Runs, NEW k \in Tool, NEW r \in RequestId, RunAsks(t, k, r)
      PROVE  TypeOK'
  BY <1>3 DEF RunAsks
<1>4. ASSUME NEW t \in Calls, NEW s \in Sessions, NEW r \in RequestId,
             CallAsks(t, s, r)
      PROVE  TypeOK'
  BY <1>4 DEF CallAsks
<1>5. ASSUME NEW s \in Sessions, Cancel(s) PROVE TypeOK'
  <2>1. pending[s] \in RequestId  BY <1>5 DEF Cancel
  <2>2. slot[pending[s]] \in Slot  BY <2>1
  <2>3. slot' \in [RequestId -> Slot]  BY <1>5, <2>1, <2>2, SlotUpdates DEF Cancel
  <2> QED BY <1>5, <2>3 DEF Cancel
<1>6. ASSUME NEW s \in Sessions, NEW r \in RequestId, NEW d \in Decision,
             Decide(s, r, d)
      PROVE  TypeOK'
  <2>1. pending[s] \in RequestId  BY <1>6 DEF Decide
  <2>2. slot[pending[s]] \in Slot  BY <2>1
  <2>3. slot' \in [RequestId -> Slot]  BY <1>6, <2>1, <2>2, SlotUpdates DEF Decide
  <2>4. acks' \in [RequestId -> SUBSET Decision]  BY <1>6 DEF Decide
  <2>5. inTime' \subseteq RequestId  BY <1>6, <2>1 DEF Decide
  <2> QED BY <1>6, <2>3, <2>4, <2>5 DEF Decide
<1>7. ASSUME NEW t \in Threads, Submit(t) PROVE TypeOK'
  BY <1>7 DEF Submit
<1>8. ASSUME NEW t \in Threads, SubmitRefused(t) PROVE TypeOK'
  BY <1>8 DEF SubmitRefused
<1>9. ASSUME NEW t \in Threads, Wake(t) PROVE TypeOK'
  BY <1>9 DEF Wake
<1>10. ASSUME NEW t \in Threads, TimeOut(t) PROVE TypeOK'
  BY <1>10 DEF TimeOut
<1>11. ASSUME NEW t \in Threads, ReadCancelled(t) PROVE TypeOK'
  BY <1>11 DEF ReadCancelled
<1>12. ASSUME NEW t \in Threads, ReadDecision(t) PROVE TypeOK'
  <2>1. req[t] \in RequestId /\ slot[req[t]].decision \in Decision
    BY <1>12 DEF ReadDecision, IInv, CheckedHasDecision, Slot
  <2> QED BY <1>12, <2>1 DEF ReadDecision
<1>13. ASSUME NEW t \in Threads, Pop(t) PROVE TypeOK'
  BY <1>13 DEF Pop
<1>14. ASSUME NEW t \in Threads, Return(t) PROVE TypeOK'
  BY <1>14 DEF Return
<1>15. CASE UNCHANGED vars
  BY <1>15 DEF vars
<1> HIDE DEF TypeOK, AskHasOperands, Decision, Tool
<1> QED
  BY <1>1, <1>2, <1>3, <1>4, <1>5, <1>6, <1>7, <1>8, <1>9, <1>10, <1>11, <1>12,
     <1>13, <1>14, <1>15 DEF Next, RunLife, Asks, Clients, Waiter

\* Every step of a thread, a client or the clock keeps the invariant.
LEMMA InvStep == ASSUME IInv, [Next]_vars, TypeOK' PROVE IInv'
<1> USE DistinctValues DEF IInv, TypeOK, Waiting, Asking, history, brokerVars
<1>1. ASSUME NEW t \in Runs, NEW s \in Sessions, StartRun(t, s)
      PROVE  IInv'
  <2>1. SlotOwnership' /\ AskHasOperands' /\ OneOwner' /\ OpenWhileAsking' /\ DecisionIsAcked'
    BY <1>1 DEF StartRun, SlotOwnership, AskHasOperands, OneOwner, OpenWhileAsking, DecisionIsAcked
  <2>2. CheckedHasDecision' /\ InTimeSetsEvent' /\ NoTimelyAnswerLost' /\ StatusFollows' /\ StatusProjection'
    BY <1>1 DEF StartRun, CheckedHasDecision, InTimeSetsEvent, NoTimelyAnswerLost, StatusFollows, StatusProjection
  <2> QED BY <2>1, <2>2
<1>2. ASSUME NEW t \in Runs, FinishRun(t)
      PROVE  IInv'
  <2>1. SlotOwnership' /\ AskHasOperands' /\ OneOwner' /\ OpenWhileAsking' /\ DecisionIsAcked'
    BY <1>2 DEF FinishRun, SlotOwnership, AskHasOperands, OneOwner, OpenWhileAsking, DecisionIsAcked
  <2>2. CheckedHasDecision' /\ InTimeSetsEvent' /\ NoTimelyAnswerLost' /\ StatusFollows' /\ StatusProjection'
    BY <1>2 DEF FinishRun, CheckedHasDecision, InTimeSetsEvent, NoTimelyAnswerLost, StatusFollows, StatusProjection
  <2> QED BY <2>1, <2>2
<1>3. ASSUME NEW t \in Runs, NEW k \in Tool, NEW r \in RequestId, RunAsks(t, k, r)
      PROVE  IInv'
  <2>1. SlotOwnership' /\ AskHasOperands' /\ OneOwner' /\ OpenWhileAsking' /\ DecisionIsAcked'
    BY <1>3 DEF RunAsks, Unused, SlotOwnership, AskHasOperands, OneOwner, OpenWhileAsking, DecisionIsAcked
  <2>2. CheckedHasDecision' /\ InTimeSetsEvent' /\ NoTimelyAnswerLost' /\ StatusFollows' /\ StatusProjection'
    BY <1>3 DEF RunAsks, Unused, CheckedHasDecision, InTimeSetsEvent, NoTimelyAnswerLost, StatusFollows, StatusProjection
  <2> QED BY <2>1, <2>2
<1>4. ASSUME NEW t \in Calls, NEW s \in Sessions, NEW r \in RequestId, CallAsks(t, s, r)
      PROVE  IInv'
  <2>1. SlotOwnership' /\ AskHasOperands' /\ OneOwner' /\ OpenWhileAsking' /\ DecisionIsAcked'
    BY <1>4 DEF CallAsks, Unused, SlotOwnership, AskHasOperands, OneOwner, OpenWhileAsking, DecisionIsAcked
  <2>2. CheckedHasDecision' /\ InTimeSetsEvent' /\ NoTimelyAnswerLost' /\ StatusFollows' /\ StatusProjection'
    BY <1>4 DEF CallAsks, Unused, CheckedHasDecision, InTimeSetsEvent, NoTimelyAnswerLost, StatusFollows, StatusProjection
  <2> QED BY <2>1, <2>2
<1>5. ASSUME NEW s \in Sessions, Cancel(s)
      PROVE  IInv'
  <2>1. SlotOwnership' /\ AskHasOperands' /\ OneOwner' /\ OpenWhileAsking' /\ DecisionIsAcked'
    BY <1>5 DEF Cancel, SlotOwnership, AskHasOperands, OneOwner, OpenWhileAsking, DecisionIsAcked
  <2>2. CheckedHasDecision' /\ InTimeSetsEvent' /\ NoTimelyAnswerLost' /\ StatusFollows' /\ StatusProjection'
    BY <1>5 DEF Cancel, CheckedHasDecision, InTimeSetsEvent, NoTimelyAnswerLost, StatusFollows, StatusProjection
  <2> QED BY <2>1, <2>2
<1>6. ASSUME NEW s \in Sessions, NEW r \in RequestId, NEW d \in Decision, Decide(s, r, d)
      PROVE  IInv'
  <2>1. SlotOwnership' /\ AskHasOperands' /\ OneOwner' /\ OpenWhileAsking' /\ DecisionIsAcked'
    BY <1>6 DEF Decide, Matches, SlotOwnership, AskHasOperands, OneOwner, OpenWhileAsking, DecisionIsAcked
  <2>2. CheckedHasDecision' /\ StatusFollows' /\ StatusProjection'
    BY <1>6 DEF Decide, Matches, CheckedHasDecision, StatusFollows, StatusProjection
  <2>3. InTimeSetsEvent'  BY <1>6 DEF Decide, Matches, InTimeSetsEvent, OneOwner
  <2>4. NoTimelyAnswerLost'  BY <1>6 DEF Decide, Matches, NoTimelyAnswerLost, OpenWhileAsking
  <2> QED BY <2>1, <2>2, <2>3, <2>4
<1>7. ASSUME NEW t \in Threads, Submit(t)
      PROVE  IInv'
  <2>1. AskHasOperands' /\ OneOwner' /\ OpenWhileAsking' /\ DecisionIsAcked' /\ CheckedHasDecision'
    BY <1>7 DEF Submit, SlotFree, AskHasOperands, OneOwner, OpenWhileAsking, DecisionIsAcked, CheckedHasDecision
  <2>2. InTimeSetsEvent' /\ NoTimelyAnswerLost' /\ StatusFollows'
    BY <1>7 DEF Submit, SlotFree, InTimeSetsEvent, NoTimelyAnswerLost, StatusFollows
  <2>3. SlotOwnership'  BY <1>7 DEF Submit, SlotFree, SlotOwnership, AskHasOperands
  <2>4. StatusProjection'  BY <1>7 DEF Submit, StatusProjection, StatusFollows
  <2> QED BY <2>1, <2>2, <2>3, <2>4
<1>8. ASSUME NEW t \in Threads, SubmitRefused(t)
      PROVE  IInv'
  <2>1. SlotOwnership' /\ AskHasOperands' /\ OneOwner' /\ DecisionIsAcked' /\ CheckedHasDecision'
    BY <1>8 DEF SubmitRefused, SlotOwnership, AskHasOperands, OneOwner, DecisionIsAcked, CheckedHasDecision
  <2>2. InTimeSetsEvent' /\ NoTimelyAnswerLost' /\ StatusFollows' /\ StatusProjection'
    BY <1>8 DEF SubmitRefused, InTimeSetsEvent, NoTimelyAnswerLost, StatusFollows, StatusProjection
  <2>3. OpenWhileAsking'  BY <1>8 DEF SubmitRefused, OpenWhileAsking, OneOwner
  <2> QED BY <2>1, <2>2, <2>3
<1>9. ASSUME NEW t \in Threads, Wake(t)
      PROVE  IInv'
  <2>1. SlotOwnership' /\ AskHasOperands' /\ OneOwner' /\ OpenWhileAsking' /\ DecisionIsAcked'
    BY <1>9 DEF Wake, SlotOwnership, AskHasOperands, OneOwner, OpenWhileAsking, DecisionIsAcked
  <2>2. CheckedHasDecision' /\ InTimeSetsEvent' /\ NoTimelyAnswerLost' /\ StatusFollows' /\ StatusProjection'
    BY <1>9 DEF Wake, CheckedHasDecision, InTimeSetsEvent, NoTimelyAnswerLost, StatusFollows, StatusProjection
  <2> QED BY <2>1, <2>2
<1>10. ASSUME NEW t \in Threads, TimeOut(t)
      PROVE  IInv'
  <2>1. SlotOwnership' /\ AskHasOperands' /\ OneOwner' /\ DecisionIsAcked' /\ CheckedHasDecision'
    BY <1>10 DEF TimeOut, MayTimeOut, SlotOwnership, AskHasOperands, OneOwner, DecisionIsAcked, CheckedHasDecision
  <2>2. InTimeSetsEvent' /\ StatusFollows'
    BY <1>10 DEF TimeOut, MayTimeOut, InTimeSetsEvent, StatusFollows
  <2>3. OpenWhileAsking'  BY <1>10 DEF TimeOut, MayTimeOut, OpenWhileAsking, OneOwner
  <2>4. NoTimelyAnswerLost'  BY <1>10 DEF TimeOut, MayTimeOut, NoTimelyAnswerLost, InTimeSetsEvent
  <2>5. StatusProjection'  BY <1>10 DEF TimeOut, MayTimeOut, StatusProjection, OpenWhileAsking
  <2> QED BY <2>1, <2>2, <2>3, <2>4, <2>5
<1>11. ASSUME NEW t \in Threads, ReadCancelled(t)
      PROVE  IInv'
  <2>1. SlotOwnership' /\ AskHasOperands' /\ OneOwner' /\ DecisionIsAcked' /\ CheckedHasDecision'
    BY <1>11 DEF ReadCancelled, Interrupted, SlotOwnership, AskHasOperands, OneOwner, DecisionIsAcked, CheckedHasDecision
  <2>2. InTimeSetsEvent' /\ NoTimelyAnswerLost' /\ StatusFollows'
    BY <1>11 DEF ReadCancelled, Interrupted, InTimeSetsEvent, NoTimelyAnswerLost, StatusFollows
  <2>3. OpenWhileAsking'  BY <1>11 DEF ReadCancelled, Interrupted, OpenWhileAsking, OneOwner, AskHasOperands
  <2>4. StatusProjection'
    <3>1. \A u \in Runs : u # t /\ pc[u] = "idle" /\ status[u] = "waiting_permission"
             => req[u] \in RequestId /\ req[u] # req[t]
      BY <1>11 DEF ReadCancelled, AskHasOperands, OneOwner, StatusFollows
    <3>2. /\ pc'[t] \in Waiting /\ status' = status /\ tool' = tool /\ req' = req
          /\ \A u \in Threads : u # t => pc'[u] = pc[u]
          /\ \A r \in RequestId : r # req[t] => verdict'[r] = verdict[r]
      BY <1>11 DEF ReadCancelled
    <3> QED BY <1>11, <3>1, <3>2 DEF ReadCancelled, StatusProjection, StatusFollows
  <2> QED BY <2>1, <2>2, <2>3, <2>4
<1>12. ASSUME NEW t \in Threads, ReadDecision(t)
      PROVE  IInv'
  <2>1. SlotOwnership' /\ AskHasOperands' /\ OneOwner' /\ DecisionIsAcked' /\ CheckedHasDecision'
    BY <1>12 DEF ReadDecision, SlotOwnership, AskHasOperands, OneOwner, DecisionIsAcked, CheckedHasDecision
  <2>2. StatusFollows'
    BY <1>12 DEF ReadDecision, StatusFollows
  <2>3. OpenWhileAsking'  BY <1>12 DEF ReadDecision, OpenWhileAsking, OneOwner
  <2>4. InTimeSetsEvent'  BY <1>12 DEF ReadDecision, InTimeSetsEvent, CheckedHasDecision, Slot, Decision
  <2>5. NoTimelyAnswerLost'  BY <1>12 DEF ReadDecision, NoTimelyAnswerLost, CheckedHasDecision, Slot, Decision
  <2>6. StatusProjection'  BY <1>12 DEF ReadDecision, StatusProjection, OpenWhileAsking
  <2> QED BY <2>1, <2>2, <2>3, <2>4, <2>5, <2>6
<1>13. ASSUME NEW t \in Threads, Pop(t)
      PROVE  IInv'
  <2>1. AskHasOperands' /\ OneOwner' /\ OpenWhileAsking' /\ DecisionIsAcked' /\ NoTimelyAnswerLost'
    BY <1>13 DEF Pop, NewSlot, AskHasOperands, OneOwner, OpenWhileAsking, DecisionIsAcked, NoTimelyAnswerLost
  <2>2. StatusFollows' /\ StatusProjection'
    BY <1>13 DEF Pop, NewSlot, StatusFollows, StatusProjection
  <2>3. SlotOwnership'  BY <1>13 DEF Pop, NewSlot, SlotOwnership, OneOwner
  <2>4. CheckedHasDecision'  BY <1>13 DEF Pop, NewSlot, CheckedHasDecision, OneOwner
  <2>5. InTimeSetsEvent'  BY <1>13 DEF Pop, NewSlot, InTimeSetsEvent, OneOwner
  <2> QED BY <2>1, <2>2, <2>3, <2>4, <2>5
<1>14. ASSUME NEW t \in Threads, Return(t)
      PROVE  IInv'
  <2>1. SlotOwnership' /\ AskHasOperands' /\ OneOwner' /\ OpenWhileAsking' /\ DecisionIsAcked'
    BY <1>14 DEF Return, ResolvedCalled, SlotOwnership, AskHasOperands, OneOwner, OpenWhileAsking, DecisionIsAcked
  <2>2. CheckedHasDecision' /\ InTimeSetsEvent' /\ NoTimelyAnswerLost'
    BY <1>14 DEF Return, ResolvedCalled, CheckedHasDecision, InTimeSetsEvent, NoTimelyAnswerLost
  <2>3. StatusFollows'  BY <1>14 DEF Return, ResolvedCalled, StatusFollows, AskHasOperands
  <2>4. StatusProjection'  BY <1>14 DEF Return, ResolvedCalled, StatusProjection, AskHasOperands, Tool
  <2> QED BY <2>1, <2>2, <2>3, <2>4
<1>15. CASE UNCHANGED vars
  BY <1>15 DEF vars, SlotOwnership, AskHasOperands, OneOwner, OpenWhileAsking,
     DecisionIsAcked, CheckedHasDecision, InTimeSetsEvent, NoTimelyAnswerLost,
     StatusFollows, StatusProjection
<1> QED
  BY <1>1, <1>2, <1>3, <1>4, <1>5, <1>6, <1>7, <1>8, <1>9, <1>10, <1>11, <1>12,
     <1>13, <1>14, <1>15 DEF Next, RunLife, Asks, Clients, Waiter

\* No request is pending at the start.
LEMMA InvInit == Init => IInv
BY DistinctValues DEF Init, IInv, TypeOK, SlotOwnership, AskHasOperands, OneOwner,
   OpenWhileAsking, DecisionIsAcked, CheckedHasDecision, InTimeSetsEvent,
   NoTimelyAnswerLost, StatusFollows, StatusProjection, Waiting, Asking, PC,
   Slot, NewSlot, RunStatus, Contract!Verdict, Contract!Decision,
   Contract!NoVerdict

\* The inductive invariant holds in every reachable state.
THEOREM Invariance == Spec => []IInv
<1>1. IInv /\ [Next]_vars => IInv'  BY TypeStep, InvStep
<1> QED BY <1>1, InvInit, PTL DEF Spec

\* Every reachable state is well typed.
THEOREM TypeCorrect == Spec => []TypeOK
BY Invariance, PTL DEF IInv

\* A waiting thread owns its session's slot and no slot outlives its wait:
\* a decision reaches the thread it names, and a session is never wedged.
THEOREM OwnershipHolds == Spec => []SlotOwnership
BY Invariance, PTL DEF IInv

\* No answer acknowledged during the wait is lost to the timeout.
THEOREM TimelyAnswersCount == Spec => []NoTimelyAnswerLost
BY Invariance, PTL DEF IInv

\* The run's row says waiting_permission throughout the wait, and afterwards
\* only when a refused ask of a command or git tool left it behind.
THEOREM ProjectionHolds == Spec => []StatusProjection
BY Invariance, PTL DEF IInv

-------------------------------------------------------------------------------
(* The broker implements the contract of PermissionContract.               *)

\* At the start the contract's history is empty.
LEMMA RefinesInit == Init => Contract!CInit
BY DEF Init, Contract!CInit

\* Every step is one step of the contract for one request, or none.
LEMMA RefinesStep ==
    ASSUME IInv, [Next]_vars
    PROVE  [Contract!CNext]_(Contract!contractVars)
<1> DEFINE Goal == [Contract!CNext]_(Contract!contractVars)
<1> SUFFICES Goal  OBVIOUS
<1> USE DEF IInv, TypeOK, AskHasOperands, Asking, history, brokerVars
<1>0. ASSUME UNCHANGED <<acks, verdict, ran>> PROVE Goal
  BY <1>0 DEF Contract!contractVars
<1>1. ASSUME NEW r \in RequestId, NEW v \in Contract!Verdict, Contract!Settle(r, v)
      PROVE  Goal
  BY <1>1 DEF Contract!CNext
<1>2. ASSUME NEW s \in Sessions, NEW r \in RequestId, NEW d \in Decision, Decide(s, r, d)
      PROVE  Goal
  <2>1. Contract!Answer(r, d)  BY <1>2 DEF Decide, Contract!Answer
  <2> QED BY <2>1 DEF Contract!CNext, Decision, Contract!Decision
<1>3. ASSUME NEW t \in Threads, SubmitRefused(t) PROVE Goal
  <2>1. Contract!Settle(req[t], "refused")
    BY <1>3 DEF SubmitRefused, OpenWhileAsking, Contract!Settle, Contract!NoVerdict
  <2> QED BY <1>1, <1>3, <2>1 DEF SubmitRefused, Contract!Verdict, Contract!NoVerdict
<1>4. ASSUME NEW t \in Threads, TimeOut(t) PROVE Goal
  <2>1. Contract!Settle(req[t], "timeout")
    BY <1>4 DEF TimeOut, OpenWhileAsking, Contract!Settle, Contract!NoVerdict
  <2> QED BY <1>1, <1>4, <2>1 DEF TimeOut, Contract!Verdict, Contract!NoVerdict
<1>5. ASSUME NEW t \in Threads, ReadCancelled(t) PROVE Goal
  <2>1. CASE UNCHANGED verdict  BY <1>0, <1>5, <2>1 DEF ReadCancelled
  <2>2. CASE Interrupted(req[t])
    <3>1. Contract!Settle(req[t], "cancelled")
      BY <1>5, <2>2 DEF ReadCancelled, OpenWhileAsking, Contract!Settle,
         Contract!NoVerdict
    <3> QED
      BY <1>1, <1>5, <3>1 DEF ReadCancelled, Contract!Verdict, Contract!NoVerdict
  <2> QED BY <1>5, <2>1, <2>2 DEF ReadCancelled
<1>6. ASSUME NEW t \in Threads, ReadDecision(t) PROVE Goal
  <2> DEFINE r == req[t]
  <2>1. r \in RequestId /\ slot[r].decision \in acks[r]
    BY <1>6 DEF ReadDecision, CheckedHasDecision, DecisionIsAcked
  <2>2. Contract!Settle(r, slot[r].decision)
    BY <1>6, <2>1 DEF ReadDecision, OpenWhileAsking, Contract!Settle
  <2>3. slot[r].decision \in Contract!Verdict
    BY <2>1 DEF Contract!Verdict, Contract!Decision, Decision
  <2> QED BY <1>1, <2>1, <2>2, <2>3
<1>7. ASSUME NEW t \in Threads, Return(t) PROVE Goal
  <2>1. CASE UNCHANGED ran  BY <1>0, <1>7, <2>1 DEF Return
  <2>2. CASE ran' # ran
    <3>1. req[t] \in RequestId  BY <1>7 DEF Return
    <3>2. Contract!Execute(req[t])  BY <1>7, <2>2 DEF Return, Contract!Execute
    <3> QED BY <3>1, <3>2 DEF Contract!CNext
  <2> QED BY <2>1, <2>2
<1>8. CASE UNCHANGED vars  BY <1>0, <1>8 DEF vars
<1>9. ASSUME NEW t \in Threads, Submit(t) \/ Wake(t) \/ Pop(t) PROVE Goal
  BY <1>0, <1>9 DEF Submit, Wake, Pop
<1>10. ASSUME NEW s \in Sessions, Cancel(s) PROVE Goal
  BY <1>0, <1>10 DEF Cancel
<1>11. CASE RunLife \/ Asks
  BY <1>0, <1>11 DEF RunLife, Asks, StartRun, FinishRun, RunAsks, CallAsks
<1> HIDE DEF Goal, IInv, TypeOK, AskHasOperands
<1> QED
  BY <1>2, <1>3, <1>4, <1>5, <1>6, <1>7, <1>8, <1>9, <1>10, <1>11
     DEF Next, Clients, Waiter

\* Every behaviour of the broker is one the contract allows: one verdict per
\* request, answers only as given to that request, the tool at most once and
\* only on "allow".
THEOREM ContractHolds == Spec => ImplementsContract
<1>1. IInv /\ [Next]_vars => [Contract!CNext]_(Contract!contractVars)
  BY RefinesStep
<1> QED
  BY <1>1, RefinesInit, Invariance, PTL DEF Spec, ImplementsContract, Contract!CSpec
===============================================================================
