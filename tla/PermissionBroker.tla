--------------------------- MODULE PermissionBroker ---------------------------
(***************************************************************************)
(* The interactive permission dialogue of the API server.                  *)
(*                                                                         *)
(* A thread that must ask the user (an agent run executing run_command, a  *)
(* git tool or an MCP tool; or a REST call of an MCP tool) registers a     *)
(* slot under its session in PendingPermissionBroker and waits on the      *)
(* slot's event; an HTTP client reads the pending request and posts a      *)
(* decision, which sets the event.  The waiter reads the slot and pops it  *)
(* from the table in a `finally'.  Only the table is under a lock: the     *)
(* wait, and the reads of slot.cancelled and slot.decision, are not.       *)
(*                                                                         *)
(* Around the wait an agent run projects its status into the AgentRun row  *)
(* (waiting_permission, then running again) through two callbacks.         *)
(***************************************************************************)
EXTENDS FiniteSets

CONSTANTS
    Sessions,       \* session ids
    Runs,           \* threads inside AgentService.run
    Calls,          \* threads inside POST .../mcp/servers/../tools/../call
    RequestId,      \* uuid4 of every PermissionRequest the model may create
    None            \* no value

Threads == Runs \cup Calls

Decision == {"allow", "deny"}

ASSUME DistinctValues ==
    /\ Runs \cap Calls = {}
    /\ None \notin Sessions \cup RequestId \cup Threads \cup Decision

VARIABLES
    pending,    \* [Sessions -> RequestId or None]   PendingPermissionBroker._pending
    slot,       \* [RequestId -> Slot]               the _PendingSlot of each request
    pc,         \* [Threads -> PC]                   where each thread is
    session,    \* [Threads -> Sessions or None]     the session it works for
    tool,       \* [Runs -> Tool or None]            what a run wants to execute
    req,        \* [Threads -> RequestId or None]    its latest PermissionRequest
    status,     \* [Runs -> RunStatus]               the persisted AgentRun.status
    inTime,     \* history: requests answered while their thread still waited
    acks,       \* history: answers acknowledged, by the request the client named
    verdict,    \* history: what submit_and_wait told the thread
    ran         \* history: requests whose tool was executed

brokerVars == <<pending, slot>>
threadVars == <<pc, session, tool, req>>
history    == <<inTime, acks, verdict, ran>>
vars == <<pending, slot, pc, session, tool, req, status,
          inTime, acks, verdict, ran>>

Contract == INSTANCE PermissionContract WITH
    RequestId <- RequestId, acks <- acks, verdict <- verdict, ran <- ran

Slot      == [event : BOOLEAN, decision : Decision \cup {None}, cancelled : BOOLEAN]
RunStatus == {"idle", "running", "waiting_permission", "completed"}
\* run_command and the git tools share one calling convention ("command");
\* MCPRemoteTool has another ("mcp").
Tool      == {"command", "mcp"}
Waiting   == {"waiting", "woken", "checked", "popping"}   \* its slot is in the table
PC        == {"off", "idle", "asked", "returning"} \cup Waiting

NewSlot == [event |-> FALSE, decision |-> None, cancelled |-> FALSE]

TypeOK ==
    /\ pending \in [Sessions -> RequestId \cup {None}]
    /\ slot \in [RequestId -> Slot]
    /\ pc \in [Threads -> PC]
    /\ session \in [Threads -> Sessions \cup {None}]
    /\ tool \in [Runs -> Tool \cup {None}]
    /\ req \in [Threads -> RequestId \cup {None}]
    /\ status \in [Runs -> RunStatus]
    /\ inTime \subseteq RequestId
    /\ acks \in [RequestId -> SUBSET Decision]
    /\ verdict \in [RequestId -> Contract!Verdict]
    /\ ran \subseteq RequestId

Init ==
    /\ pending = [s \in Sessions |-> None]
    /\ slot = [r \in RequestId |-> NewSlot]
    /\ pc = [t \in Threads |-> "off"]
    /\ session = [t \in Threads |-> None]
    /\ tool = [t \in Runs |-> None]
    /\ req = [t \in Threads |-> None]
    /\ status = [t \in Runs |-> "idle"]
    /\ inTime = {}
    /\ acks = [r \in RequestId |-> {}]
    /\ verdict = [r \in RequestId |-> "open"]
    /\ ran = {}

-------------------------------------------------------------------------------
(* Threads come and go.                                                    *)

\* _exclusive_session: the non-blocking acquire of the session's run lock.
SessionFree(s) == \A t \in Runs : session[t] = s => pc[t] = "off"

\* AgentService.run gets the session lock and creates the run as RUNNING.
StartRun(t, s) ==
    /\ pc[t] = "off" /\ status[t] = "idle"
    /\ SessionFree(s)
    /\ pc' = [pc EXCEPT ![t] = "idle"]
    /\ session' = [session EXCEPT ![t] = s]
    /\ status' = [status EXCEPT ![t] = "running"]
    /\ UNCHANGED <<pending, slot, tool, req, inTime, acks, verdict, ran>>

\* The loop ends between two tool calls; complete_run overwrites the status.
FinishRun(t) ==
    /\ pc[t] = "idle"
    /\ pc' = [pc EXCEPT ![t] = "off"]
    /\ status' = [status EXCEPT ![t] = "completed"]
    /\ UNCHANGED <<pending, slot, session, tool, req, inTime, acks,
                   verdict, ran>>

-------------------------------------------------------------------------------
(* Asking.                                                                 *)

\* The PermissionRequest of every ask is new (uuid4 ids are never reused).
Unused(r) == verdict[r] = "open" /\ \A t \in Threads : req[t] # r

\* An ASK decision inside a run: build the request, call on_permission_wait,
\* which sets the run's status and emits permission_requested with the id.
RunAsks(t, k, r) ==
    /\ pc[t] = "idle"
    /\ Unused(r)
    /\ pc' = [pc EXCEPT ![t] = "asked"]
    /\ tool' = [tool EXCEPT ![t] = k]
    /\ req' = [req EXCEPT ![t] = r]
    /\ status' = [status EXCEPT ![t] = "waiting_permission"]
    /\ UNCHANGED <<pending, slot, session, inTime, acks, verdict, ran>>

\* An ASK decision in a REST call made without confirm: no callback, no status.
CallAsks(t, s, r) ==
    /\ pc[t] = "off"
    /\ Unused(r)
    /\ pc' = [pc EXCEPT ![t] = "asked"]
    /\ session' = [session EXCEPT ![t] = s]
    /\ req' = [req EXCEPT ![t] = r]
    /\ UNCHANGED <<pending, slot, tool, status, inTime, acks, verdict, ran>>

\* Mutant: the broker does not look whether the session has a slot already.
SlotFreeUnchecked(s) == TRUE

SlotFree(s) == pending[s] = None

\* submit_and_wait registers the slot, or raises PermissionError when the
\* session has one already.
Submit(t) ==
    /\ pc[t] = "asked"
    /\ SlotFree(session[t])
    /\ pending' = [pending EXCEPT ![session[t]] = req[t]]
    /\ pc' = [pc EXCEPT ![t] = "waiting"]
    /\ UNCHANGED <<slot, session, tool, req, status, history>>

SubmitRefused(t) ==
    /\ pc[t] = "asked"
    /\ ~SlotFree(session[t])
    /\ verdict' = [verdict EXCEPT ![req[t]] = "refused"]
    /\ pc' = [pc EXCEPT ![t] = "returning"]
    /\ UNCHANGED <<pending, slot, session, tool, req, status,
                   inTime, acks, ran>>

-------------------------------------------------------------------------------
(* Answering: HTTP handlers and the broker's own cancel.                   *)

\* Mutant: decide() answers whatever is pending, without comparing ids.
MatchesAnything(s, r) == pending[s] # None

\* decide() looks the slot up by session and compares request ids.
Matches(s, r) == pending[s] = r

\* POST .../permissions/decide by a client that names any request id: the one
\* GET .../permissions/pending shows, or one it was shown long ago.  A decide
\* that finds no slot or another request raises and changes nothing.
Decide(s, r, d) ==
    /\ pending[s] # None
    /\ Matches(s, r)
    /\ slot' = [slot EXCEPT ![pending[s]] = [@ EXCEPT !.decision = d, !.event = TRUE]]
    /\ acks' = [acks EXCEPT ![r] = @ \cup {d}]
    /\ inTime' = IF \E t \in Threads : req[t] = pending[s] /\ pc[t] = "waiting"
                 THEN inTime \cup {pending[s]} ELSE inTime
    /\ UNCHANGED <<pending, pc, session, tool, req, status, verdict, ran>>

\* cancel(): part of the broker's interface (no caller in the application yet).
Cancel(s) ==
    /\ pending[s] # None
    /\ slot' = [slot EXCEPT ![pending[s]] = [@ EXCEPT !.cancelled = TRUE, !.event = TRUE]]
    /\ UNCHANGED <<pending, pc, session, tool, req, status, history>>

-------------------------------------------------------------------------------
(* The rest of submit_and_wait, step by step.                              *)

\* event.wait returns True.
Wake(t) ==
    /\ pc[t] = "waiting"
    /\ slot[req[t]].event
    /\ pc' = [pc EXCEPT ![t] = "woken"]
    /\ UNCHANGED <<brokerVars, session, tool, req, status, history>>

\* Mutants: the wait gives up without looking at the event; it never gives up.
MayTimeOutAlways(t) == TRUE
MayTimeOutNever(t) == FALSE

\* event.wait can give up only while the event is not set.
MayTimeOut(t) == ~slot[req[t]].event

\* event.wait returns False.  The event may be set after this step: the slot
\* stays in the table until Pop.
TimeOut(t) ==
    /\ pc[t] = "waiting"
    /\ MayTimeOut(t)
    /\ verdict' = [verdict EXCEPT ![req[t]] = "timeout"]
    /\ pc' = [pc EXCEPT ![t] = "popping"]
    /\ UNCHANGED <<brokerVars, session, tool, req, status, inTime, acks, ran>>

\* Mutant: the waiter takes slot.decision without checking that there is one.
InterruptedUnchecked(r) == FALSE

\* `if slot.cancelled or slot.decision is None', without the lock.
Interrupted(r) == slot[r].cancelled \/ slot[r].decision = None

ReadCancelled(t) ==
    /\ pc[t] = "woken"
    /\ IF Interrupted(req[t])
       THEN /\ verdict' = [verdict EXCEPT ![req[t]] = "cancelled"]
            /\ pc' = [pc EXCEPT ![t] = "popping"]
       ELSE /\ pc' = [pc EXCEPT ![t] = "checked"]
            /\ UNCHANGED verdict
    /\ UNCHANGED <<brokerVars, session, tool, req, status, inTime, acks, ran>>

\* `return slot.decision': a later decide may have replaced the first one.
ReadDecision(t) ==
    /\ pc[t] = "checked"
    /\ verdict' = [verdict EXCEPT ![req[t]] = slot[req[t]].decision]
    /\ pc' = [pc EXCEPT ![t] = "popping"]
    /\ UNCHANGED <<brokerVars, session, tool, req, status, inTime, acks, ran>>

\* finally: self._pending.pop(session_id, None), whatever slot is there; the
\* thread's own slot object is dropped with the frame.
Pop(t) ==
    /\ pc[t] = "popping"
    /\ pending' = [pending EXCEPT ![session[t]] = None]
    /\ slot' = [slot EXCEPT ![req[t]] = NewSlot]
    /\ pc' = [pc EXCEPT ![t] = "returning"]
    /\ UNCHANGED <<session, tool, req, status, history>>

-------------------------------------------------------------------------------
(* Back in the tool.                                                       *)

\* Mutant: the callback is called after a decision only, not on an interrupt.
ResolvedOnDecisionOnly(t) == verdict[req[t]] \in Decision

\* Is on_permission_resolved called?  MCPRemoteTool calls it in a `finally'.
\* run_command and the git tools call it after a decision and for
\* PermissionInterruptedError, but a refused submit raises PermissionError
\* itself, which only ToolExecutor catches.
ResolvedCalled(t) == tool[t] = "mcp" \/ verdict[req[t]] # "refused"

\* The status callback runs, and the tool is executed on ALLOW only.
Return(t) ==
    /\ pc[t] = "returning"
    /\ ran' = IF verdict[req[t]] = "allow" THEN ran \cup {req[t]} ELSE ran
    /\ IF t \in Runs
       THEN /\ status' = IF ResolvedCalled(t)
                         THEN [status EXCEPT ![t] = "running"] ELSE status
            /\ pc' = [pc EXCEPT ![t] = "idle"]
       ELSE /\ pc' = [pc EXCEPT ![t] = "off"]
            /\ UNCHANGED status
    /\ UNCHANGED <<pending, slot, session, tool, req, inTime, acks, verdict>>

-------------------------------------------------------------------------------
Waiter(t) ==
    \/ Submit(t) \/ SubmitRefused(t)
    \/ Wake(t) \/ TimeOut(t)
    \/ ReadCancelled(t) \/ ReadDecision(t)
    \/ Pop(t) \/ Return(t)

Asks ==
    \/ \E t \in Runs, k \in Tool, r \in RequestId : RunAsks(t, k, r)
    \/ \E t \in Calls, s \in Sessions, r \in RequestId : CallAsks(t, s, r)

Clients ==
    \E s \in Sessions :
        \/ Cancel(s)
        \/ \E r \in RequestId, d \in Decision : Decide(s, r, d)

RunLife ==
    \E t \in Runs : FinishRun(t) \/ \E s \in Sessions : StartRun(t, s)

Next == RunLife \/ Asks \/ Clients \/ \E t \in Threads : Waiter(t)

\* A thread that can run does run, and the broker handler of the API waits
\* with a finite timeout (600 s), so event.wait returns.
Fairness == \A t \in Threads : WF_vars(Waiter(t))

Spec == Init /\ [][Next]_vars /\ Fairness

-------------------------------------------------------------------------------
(* Properties.                                                             *)

\* A thread between registering its slot and popping it owns the slot of its
\* session, so a decision posted for the session reaches that thread and no
\* other; and no slot outlives its thread's wait, which would refuse every
\* later ask of the session.  (submit_and_wait's check and its finally.)
SlotOwnership ==
    /\ \A t \in Threads : pc[t] \in Waiting => pending[session[t]] = req[t]
    /\ \A s \in Sessions : pending[s] # None =>
          \E t \in Threads : /\ session[t] = s
                            /\ req[t] = pending[s]
                            /\ pc[t] \in Waiting

\* An answer acknowledged while the asking thread was still in event.wait is
\* never lost to the timeout.  (One acknowledged after event.wait gave up, but
\* before the slot is popped, is.)
NoTimelyAnswerLost == \A r \in inTime : verdict[r] # "timeout"

\* The status projection.  While a run is blocked in the broker its row says
\* waiting_permission, and once it is back in its loop the row still says so
\* only if its last ask was refused by the broker outside an MCP tool.
StatusProjection ==
    \A t \in Runs :
        /\ pc[t] \in Waiting => status[t] = "waiting_permission"
        /\ pc[t] = "idle" /\ status[t] = "waiting_permission" =>
              verdict[req[t]] = "refused" /\ tool[t] = "command"

\* docs/architecture.md:246: WAITING_PERMISSION means that the run waits for
\* the user's ALLOW or DENY.  Refuted: a run_command ask that the broker
\* refuses, because a REST MCP call of the session is pending, leaves the
\* status behind while the run goes on.
WaitingMeansAsking ==
    \A t \in Runs : status[t] = "waiting_permission" =>
        pc[t] \in Waiting \cup {"asked", "returning"}

\* Every ask ends: by an answer, a cancel, a refusal or the timeout.
AskEnds ==
    \A t \in Threads : pc[t] = "asked" ~> pc[t] \in {"idle", "off"}

\* The dialogue keeps the contract: one verdict per request, an answer only
\* if the user gave it to that very request, and the tool run at most once
\* and only when allowed.
ImplementsContract == Contract!CSpec
===============================================================================
