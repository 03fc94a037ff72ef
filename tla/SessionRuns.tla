------------------------------ MODULE SessionRuns ------------------------------
(***************************************************************************)
(* AgentService.run from the session's row to the touched session, with    *)
(* the repositories it saves through, over one SQLite connection that all  *)
(* threads share, and the migrations that open the database.               *)
(*                                                                         *)
(* db is what the connection sees, disk what is committed.  A commit makes *)
(* everything durable that is pending, whoever wrote it.  A save may be    *)
(* refused (NotFoundError, ConflictError), raise before it writes, or      *)
(* write and raise at its commit.  After the loop a run has an agenda of   *)
(* saves, which the loop's trace determines.                               *)
(***************************************************************************)
EXTENDS SchemaMigration, SequencesExt, FiniteSetsExt

CONSTANTS
    Sessions, Runs, Patches,
    Models,         \* a provider and a model of it, which a switch names together
    Traces,         \* what the loop of a run may leave, a sequence of [turns, cut, answered]
    Workloads,      \* the session of each run, the model each session's row has at
                    \* the start (None: no such row), and how much may happen
    None,
    NoId            \* a tool call without an id

RequestKinds == {"switch", "other"}

ASSUME RunsAssumption ==
    /\ None \notin Sessions \cup Runs \cup Models /\ Sessions \cap Runs = {}
    /\ \A w \in Workloads :
          /\ w.sessionOf \in [Runs -> Sessions]
          /\ w.model \in [Sessions -> Models \cup {None}]
          /\ w.requests \in [RequestKinds -> Nat]
          /\ w.faults \in Nat /\ w.crashes \in Nat

IsSequence(s) == s \in Seq(ToSet(s))

\* A loop has a list of turns, a turn a list of calls, and what is cut is cut off
\* the last batch.
ASSUME TracesAssumption ==
    /\ IsSequence(Traces)
    /\ \A k \in 1..Len(Traces) :
          LET turns == Traces[k].turns IN
          /\ IsSequence(turns) /\ \A n \in 1..Len(turns) : IsSequence(turns[n])
          /\ turns # <<>> => Traces[k].cut \in 0..Len(turns[Len(turns)])

VARIABLES
    db, disk,       \* [model, status, rows, msgs]
    pc, sessionOf, next, trace, fresh, seen,    \* per run
    edit,           \* per PATCH: what it has read and will write
    lock,           \* _session_locks: its holder
    planner,        \* the run, or the session of the refresh, whose LLM PlannerService has
    acked, raced,   \* history per session: the last switch that was acknowledged;
                    \* who had read the row before it, or failed after it, may undo it
    faults, crashes, requests   \* bounds: how many are left

runVars   == <<pc, next, trace, fresh, seen>>
history   == <<edit, acked, raced>>
bounds    == <<faults, crashes, requests>>
vars      == <<migrationVars, db, disk, runVars, sessionOf, lock, planner, history, bounds>>

-----------------------------------------------------------------------------
\* The saves of a run.  n is a step, 0 for none; ids are those of tool calls.

Op(what, n, ids) == [what |-> what, n |-> n, ids |-> ids]

Steps(t) == 1..Len(t.turns)

\* The calls of a turn the loop got to: a hard stop cuts the last batch.
Handled(t, n) ==
    IF n = Len(t.turns)
    THEN SubSeq(t.turns[n], 1, Len(t.turns[n]) - t.cut)
    ELSE t.turns[n]

\* call_step<n> stands for an id that is missing.
CallId(call, n) == IF call.id = NoId THEN <<NoId, n>> ELSE <<call.id, 0>>

HandledIds(t, n) == {CallId(Handled(t, n)[k], n) : k \in 1..Len(Handled(t, n))}

\* tool_call_to_step: a later call of the same id has overwritten the earlier.
StepOfCall(t, id) == Max({n \in Steps(t) : id \in HandledIds(t, n)} \cup {0})

\* Calls without an id get a fresh tc_<uuid> here, which nothing refers to.
NamedIds(t, n) ==
    LET named == SelectSeq(t.turns[n], LAMBDA call : call.id # NoId)
    IN  [k \in 1..Len(named) |-> CallId(named[k], n)]

\* Mutant: tool messages are attributed like texts, to the last step.
LastStep(t, id) == Len(t.turns)

\* _resolve_message_step_id
StepOfToolMessage(t, id) == StepOfCall(t, id)

StepOfAssistant(t, n) ==
    LET ids   == NamedIds(t, n)
        known == {k \in 1..Len(ids) : StepOfCall(t, ids[k]) # 0}
    IN  IF known = {} THEN 1 ELSE StepOfCall(t, ids[Min(known)])

TurnMessages(t, n) ==
    IF t.turns[n] # <<>>
    THEN <<Op("assistant", StepOfAssistant(t, n), NamedIds(t, n))>> \o
         [k \in 1..Len(Handled(t, n)) |->
            LET id == CallId(Handled(t, n)[k], n)
            IN  Op("tool", StepOfToolMessage(t, id), <<id>>)]
    ELSE <<Op("assistant", Len(t.turns), <<>>)>> \o
         (IF n = Len(t.turns) /\ t.answered THEN <<>> ELSE <<Op("user", 0, <<>>)>>)

StepSaves(t) == [n \in Steps(t) |-> Op("step", n, <<>>)]

CallSaves(t) == FlattenSeq([n \in Steps(t) |->
    [k \in 1..Len(Handled(t, n)) |-> Op("call", n, <<CallId(Handled(t, n)[k], n)>>)]])

\* save_snapshot inserts the snapshot and then its files, in one transaction.
SnapshotSaves(t) == FlattenSeq([n \in Steps(t) |->
    IF \E k \in 1..Len(Handled(t, n)) : Handled(t, n)[k].writes
    THEN <<Op("snapshot", n, <<>>), Op("files", n, <<>>)>> ELSE <<>>])

Messages(t, isFresh) ==
    (IF isFresh THEN <<Op("system", 0, <<>>)>> ELSE <<>>)
        \o <<Op("user", 0, <<>>)>> \o FlattenSeq([n \in Steps(t) |-> TurnMessages(t, n)])

MessageOps == {"system", "user", "assistant", "tool"}

Records(t, isFresh) ==
    StepSaves(t) \o CallSaves(t) \o SnapshotSaves(t) \o Messages(t, isFresh)

\* Mutant: the run is completed before its messages are appended.
CompleteEarly(t, isFresh) ==
    StepSaves(t) \o CallSaves(t) \o SnapshotSaves(t) \o <<Op("complete", 0, <<>>)>>
        \o Messages(t, isFresh)

Agenda(t, isFresh) == Append(Records(t, isFresh), Op("complete", 0, <<>>))

Agendas == [k \in 1..Len(Traces) |-> [isFresh \in BOOLEAN |-> Agenda(Traces[k], isFresh)]]

FinalStatus(t) == IF t.answered THEN "completed" ELSE "stopped"

-----------------------------------------------------------------------------
\* The tables.

EmptyDb == [model  |-> [s \in Sessions |-> None],
            status |-> [r \in Runs |-> "absent"],
            rows   |-> {},
            msgs   |-> [s \in Sessions |-> <<>>]]

Row(r, op) == [run |-> r, what |-> op.what, n |-> op.n, ids |-> op.ids]

InsertRun(r)         == [db EXCEPT !.status[r] = "running"]
CompleteRun(r)       == [db EXCEPT !.status[r] = FinalStatus(Traces[trace[r]])]
UpdateModel(s, m)    == [db EXCEPT !.model[s] = m]
AddStep(r, op)       == [db EXCEPT !.rows = @ \cup {Row(r, op)}]
AddToolCall(r, op)   == [db EXCEPT !.rows = @ \cup {Row(r, op)}]
SaveSnapshot(r, op)  == [db EXCEPT !.rows = @ \cup {Row(r, op)}]
AppendMessage(r, op) == [db EXCEPT !.msgs[sessionOf[r]] = Append(@, Row(r, op))]

Store(r, op) ==
    CASE op.what = "create"     -> InsertRun(r)
      [] op.what = "complete"   -> CompleteRun(r)
      [] op.what = "touch"      -> UpdateModel(sessionOf[r], seen[r])
      [] op.what = "step"       -> AddStep(r, op)
      [] op.what = "call"       -> AddToolCall(r, op)
      [] op.what \in {"snapshot", "files"} -> SaveSnapshot(r, op)
      [] op.what \in MessageOps -> AppendMessage(r, op)

\* _ensure_session, get_run and the foreign keys: NotFoundError, ConflictError.
SessionMissing(r) == db.model[sessionOf[r]] = None
RunMissing(r)     == db.status[r] = "absent"

\* The id of a tool call is the primary key of its table, for all runs.
IdTaken(op) == \E row \in db.rows : row.what = "call" /\ row.ids = op.ids

Refused(r, op) ==
    \/ op.what # "touch" /\ SessionMissing(r)
    \/ op.what \notin {"create", "touch"} /\ RunMissing(r)
    \/ op.what = "call" /\ IdTaken(op)

\* INSERT INTO snapshots is committed with the snapshot's files.
Commits(op) == op.what # "snapshot"

Saves(r, op) ==
    /\ ~Refused(r, op)
    /\ db' = Store(r, op)
    /\ disk' = IF Commits(op) THEN db' ELSE disk

\* sqlite3.Error or a refusal: what a failed commit leaves stays pending.
SaveRaises(r, op) ==
    /\ \/ Refused(r, op) /\ db' = db /\ UNCHANGED faults
       \/ /\ ~Refused(r, op) /\ faults > 0
          /\ faults' = faults - 1
          /\ db' \in {db, Store(r, op)}
    /\ UNCHANGED disk

-----------------------------------------------------------------------------
\* The program.

Init ==
    /\ MInit
    /\ \E w \in Workloads :
          /\ sessionOf = w.sessionOf
          /\ acked = w.model
          /\ db = [EmptyDb EXCEPT !.model = w.model]
          /\ faults = w.faults /\ crashes = w.crashes /\ requests = w.requests
    /\ disk = db
    /\ pc = [r \in Runs |-> "new"]
    /\ next = [r \in Runs |-> 1]
    /\ trace = [r \in Runs |-> 0]
    /\ fresh = [r \in Runs |-> FALSE]
    /\ seen = [r \in Runs |-> None]
    /\ lock = [s \in Sessions |-> None]
    /\ planner = None
    /\ edit = [p \in Patches |-> None]
    /\ raced = [s \in Sessions |-> FALSE]

Goto(r, label) == pc' = [pc EXCEPT ![r] = label]
Unlock(r) == lock' = [s \in Sessions |-> IF lock[s] = r THEN None ELSE lock[s]]

\* Mutant: no finally around the yield.
AbortLocked(r) == Goto(r, "raised") /\ UNCHANGED lock

\* An exception leaves run(): the lock is released, the row stays as it is.
Abort(r) == Goto(r, "raised") /\ Unlock(r)

\* get_session, before the lock.
Start(r) ==
    /\ pc[r] = "new" /\ at = Open
    /\ Goto(r, IF SessionMissing(r) THEN "raised" ELSE "locking")
    /\ UNCHANGED <<migrationVars, db, disk, next, trace, fresh, seen, sessionOf, lock,
                   planner, history, bounds>>

LockFree(r) == lock[sessionOf[r]] = None

Busy(r) ==
    /\ pc[r] = "locking" /\ ~LockFree(r)
    /\ Goto(r, "raised")
    /\ UNCHANGED <<migrationVars, db, disk, next, trace, fresh, seen, sessionOf, lock,
                   planner, history, bounds>>

\* The lock, and load_conversation.
Lock(r) ==
    /\ pc[r] = "locking" /\ LockFree(r)
    /\ IF SessionMissing(r)
       THEN Goto(r, "raised") /\ UNCHANGED <<lock, fresh>>
       ELSE /\ lock' = [lock EXCEPT ![sessionOf[r]] = r]
            /\ fresh' = [fresh EXCEPT ![r] = db.msgs[sessionOf[r]] = <<>>]
            /\ Goto(r, "creating")
    /\ UNCHANGED <<migrationVars, db, disk, next, trace, seen, sessionOf, planner,
                   history, bounds>>

CreateRun(r) ==
    /\ pc[r] = "creating"
    /\ \/ Saves(r, Op("create", 0, <<>>)) /\ Goto(r, "planning") /\ UNCHANGED <<lock, faults>>
       \/ SaveRaises(r, Op("create", 0, <<>>)) /\ Abort(r)
    /\ UNCHANGED <<migrationVars, next, trace, fresh, seen, sessionOf, planner, history,
                   crashes, requests>>

\* None is for an LLM with a script, which the plan must not use up.
SetLlm(r) ==
    /\ pc[r] = "planning"
    /\ planner' \in {r, None}
    /\ Goto(r, "beginning")
    /\ UNCHANGED <<migrationVars, db, disk, next, trace, fresh, seen, sessionOf, lock,
                   history, bounds>>

\* Mutant: set_llm(None) is skipped when begin_run raises.
TakeLlmUnlessRaised == planner' \in {planner, None}

\* The finally after begin_run.
TakeLlm == planner' = None

BeginRun(r) ==
    /\ pc[r] = "beginning"
    /\ TakeLlm
    /\ \/ Goto(r, "loop") /\ UNCHANGED lock
       \/ Abort(r)
    /\ UNCHANGED <<migrationVars, db, disk, next, trace, fresh, seen, sessionOf, history, bounds>>

\* AgentLoop.run returns; update_after_user and what prepares the tools may raise.
RunLoop(r) ==
    /\ pc[r] = "loop"
    /\ \/ /\ \E t \in 1..Len(Traces) : trace' = [trace EXCEPT ![r] = t]
          /\ Goto(r, "saving")
          /\ UNCHANGED lock
       \/ Abort(r) /\ UNCHANGED trace
    /\ UNCHANGED <<migrationVars, db, disk, next, fresh, seen, sessionOf, planner, history, bounds>>

AgendaOf(r) == Agendas[trace[r]][fresh[r]]

\* Mutant: a save that fails is skipped.
SaveSkipped(r) ==
    /\ next' = [next EXCEPT ![r] = @ + 1]
    /\ Goto(r, IF next[r] = Len(AgendaOf(r)) THEN "touching" ELSE "saving")
    /\ UNCHANGED lock

SaveFailed(r) == Abort(r) /\ UNCHANGED next

\* Steps, tool calls, snapshots, messages, completion: one after the other.
Save(r) ==
    /\ pc[r] = "saving"
    /\ LET op == AgendaOf(r)[next[r]] IN
       \/ /\ Saves(r, op)
          /\ next' = [next EXCEPT ![r] = @ + 1]
          /\ Goto(r, IF next[r] = Len(AgendaOf(r)) THEN "touching" ELSE "saving")
          /\ UNCHANGED <<lock, faults>>
       \/ SaveRaises(r, op) /\ SaveFailed(r)
    /\ UNCHANGED <<migrationVars, trace, fresh, seen, sessionOf, planner, history, crashes, requests>>

\* Mutant: the row that run() read before the lock is written back.
ReadRowEarly(r) ==
    /\ pc[r] = "touching"
    /\ \E m \in Models : seen' = [seen EXCEPT ![r] = m]
    /\ Goto(r, "touched")
    /\ UNCHANGED <<migrationVars, db, disk, next, trace, fresh, sessionOf, lock, planner, history, bounds>>

\* touch_session: update() reads the row and writes all its columns back.
ReadRow(r) ==
    /\ pc[r] = "touching"
    /\ seen' = [seen EXCEPT ![r] = db.model[sessionOf[r]]]
    /\ IF seen'[r] = None THEN Abort(r) ELSE Goto(r, "touched") /\ UNCHANGED lock
    /\ UNCHANGED <<migrationVars, db, disk, next, trace, fresh, sessionOf, planner, history, bounds>>

\* UPDATE of a row that was deleted meanwhile changes nothing.
WriteRow(r) ==
    /\ pc[r] = "touched"
    /\ \/ /\ IF SessionMissing(r)
             THEN UNCHANGED <<db, disk>> ELSE Saves(r, Op("touch", 0, <<>>))
          /\ Goto(r, "done") /\ Unlock(r)
          /\ UNCHANGED faults
       \/ /\ ~SessionMissing(r)
          /\ SaveRaises(r, Op("touch", 0, <<>>)) /\ Abort(r)
    /\ UNCHANGED <<migrationVars, next, trace, fresh, seen, sessionOf, planner, history,
                   crashes, requests>>

RunStep(r) ==
    \/ Start(r) \/ Busy(r) \/ Lock(r) \/ CreateRun(r) \/ SetLlm(r) \/ BeginRun(r)
    \/ RunLoop(r) \/ Save(r) \/ ReadRow(r) \/ WriteRow(r)

-----------------------------------------------------------------------------
\* Other requests, the migrations and the end of the process.

Arrives(kind) ==
    /\ at = Open
    /\ requests[kind] > 0 /\ requests' = [requests EXCEPT ![kind] = @ - 1]

\* PATCH /sessions/<s> and /model: update() reads the row; to is None when only
\* the title or the status is set.
PatchReads(p, s, to) ==
    /\ Arrives("switch")
    /\ edit[p] = None /\ db.model[s] # None
    /\ edit' = [edit EXCEPT ![p] = [session |-> s, seen |-> db.model[s], to |-> to]]
    /\ UNCHANGED <<migrationVars, db, disk, runVars, sessionOf, lock, planner, acked, raced,
                   faults, crashes>>

\* Somebody has read the row of s, and will write back the model it had.
Overlapped(s) ==
    \/ \E r \in Runs : sessionOf[r] = s /\ pc[r] = "touched"
    \/ \E p \in Patches : edit[p] # None /\ edit[p].session = s /\ edit[p].to = None

\* Every column is written, as it was read if the request does not set it.
Patched(e) ==
    IF db.model[e.session] = None THEN db
    ELSE UpdateModel(e.session, IF e.to = None THEN e.seen ELSE e.to)

PatchWrites(p) ==
    /\ edit[p] # None
    /\ edit' = [edit EXCEPT ![p] = None]
    /\ LET e == edit[p] IN
       \/ /\ db' = Patched(e) /\ disk' = db'
          /\ IF e.to = None
             THEN UNCHANGED <<acked, raced>>
             ELSE /\ acked' = [acked EXCEPT ![e.session] = e.to]
                  /\ raced' = [raced EXCEPT ![e.session] = Overlapped(e.session)]
          /\ UNCHANGED faults
       \/ /\ faults > 0
          /\ faults' = faults - 1
          /\ db' \in {db, Patched(e)}
          /\ raced' = [raced EXCEPT ![e.session] = @ \/ db' # db]
          /\ UNCHANGED <<disk, acked>>
    /\ UNCHANGED <<migrationVars, runVars, sessionOf, lock, planner, crashes, requests>>

Patch(p) == PatchWrites(p) \/ \E s \in Sessions, to \in Models \cup {None} : PatchReads(p, s, to)

\* AgentService.refresh_plan: set_llm without a lock, and nobody takes it back.
RefreshPlan(s) ==
    /\ Arrives("other")
    /\ db.model[s] # None
    /\ planner' = s
    /\ UNCHANGED <<migrationVars, db, disk, runVars, sessionOf, lock, history, faults, crashes>>

\* Mutant: PRAGMA foreign_keys is off.
Uncascaded(s) == [db EXCEPT !.model[s] = None]

Cascaded(s) ==
    [model  |-> [db.model EXCEPT ![s] = None],
     status |-> [r \in Runs |-> IF sessionOf[r] = s THEN "absent" ELSE db.status[r]],
     rows   |-> {row \in db.rows : sessionOf[row.run] # s},
     msgs   |-> [db.msgs EXCEPT ![s] = <<>>]]

\* DELETE /sessions/<s>: no lock, and the foreign keys cascade.
Delete(s) ==
    /\ Arrives("other")
    /\ db.model[s] # None
    /\ db' = Cascaded(s)
    /\ \/ disk' = db' /\ UNCHANGED faults
       \/ UNCHANGED disk /\ faults > 0 /\ faults' = faults - 1
    /\ UNCHANGED <<migrationVars, runVars, sessionOf, lock, planner, history, crashes>>

Migrate ==
    /\ \/ Connect \/ RunStatement \/ RecordVersion
       \/ crashes > 0 /\ StatementRaises
    /\ UNCHANGED <<db, disk, runVars, sessionOf, lock, planner, history, bounds>>

Running(r) == pc[r] \notin {"new", "done", "raised", "crashed"}

Crash ==
    /\ crashes > 0
    /\ crashes' = crashes - 1
    /\ Stop
    /\ db' = disk
    /\ pc' = [r \in Runs |-> IF Running(r) THEN "crashed" ELSE pc[r]]
    /\ lock' = [s \in Sessions |-> None]
    /\ planner' = None
    /\ edit' = [p \in Patches |-> None]
    /\ UNCHANGED <<disk, next, trace, fresh, seen, sessionOf, acked, raced, faults, requests>>

Next ==
    \/ \E r \in Runs : RunStep(r)
    \/ \E s \in Sessions : Delete(s) \/ RefreshPlan(s)
    \/ \E p \in Patches : Patch(p)
    \/ Migrate \/ Crash

Fairness == \A r \in Runs : WF_vars(RunStep(r))

Spec == Init /\ [][Next]_vars /\ Fairness

-----------------------------------------------------------------------------
\* What the code promises.

Status == {"absent", "running", "completed", "stopped"}
SessionRow == Models \cup {None}
Labels == {"new", "locking", "creating", "planning", "beginning", "loop", "saving",
           "touching", "touched", "done", "raised", "crashed"}

\* Rows and messages belong to runs that exist, on the connection and on disk;
\* a run that saves has a trace, and only a run that is under way has the lock.
TypeOK ==
    /\ MTypeOK
    /\ \A d \in {db, disk} :
          /\ d.model \in [Sessions -> SessionRow]
          /\ d.status \in [Runs -> Status]
          /\ \A row \in d.rows : d.status[row.run] # "absent"
          /\ \A s \in Sessions : \A i \in 1..Len(d.msgs[s]) :
                d.status[d.msgs[s][i].run] # "absent" /\ sessionOf[d.msgs[s][i].run] = s
          /\ \A r \in Runs : d.model[sessionOf[r]] = None => d.status[r] = "absent"
    /\ pc \in [Runs -> Labels]
    /\ \A r \in Runs : pc[r] = "saving" => trace[r] \in 1..Len(Traces) /\ next[r] \in 1..Len(AgendaOf(r))
    /\ \A s \in Sessions : lock[s] \in Runs => Running(lock[s]) /\ sessionOf[lock[s]] = s
    /\ planner \in Runs \cup Sessions \cup {None}
    /\ \A p \in Patches : edit[p] # None => edit[p].session \in Sessions /\ edit[p].seen \in Models

AllRecords  == [k \in 1..Len(Traces) |-> [isFresh \in BOOLEAN |-> Records(Traces[k], isFresh)]]
AllMessages == [k \in 1..Len(Traces) |-> [isFresh \in BOOLEAN |-> Messages(Traces[k], isFresh)]]

\* The i-th message the loop of r has left for its session.
Said(r, i) == Row(r, AllMessages[trace[r]][fresh[r]][i])

\* Where the messages of r are in its session.
SaidBy(d, r) == {i \in 1..Len(d.msgs[sessionOf[r]]) : d.msgs[sessionOf[r]][i].run = r}

\* Once the disk says that a run has ended, everything it did is on disk: its
\* steps, its tool calls, its snapshots with their files and its messages in
\* order, whatever failed, crashed or was committed by another thread before.
CompletedIsWhole ==
    \A r \in Runs : disk.status[r] \in {"completed", "stopped"} =>
        LET did == AllRecords[trace[r]][fresh[r]] IN
        /\ \A i \in 1..Len(did) : did[i].what \notin MessageOps => Row(r, did[i]) \in disk.rows
        /\ Cardinality(SaidBy(disk, r)) = Len(AllMessages[trace[r]][fresh[r]])

\* A conversation is never two runs' messages shuffled, and never has a
\* message whose predecessors were lost: the messages of a run lie together,
\* a prefix of what the run said, on the connection and after any crash.
RunsDoNotMix ==
    \A d \in {db, disk} : \A s \in Sessions : \A i \in 1..Len(d.msgs[s]) :
        LET m    == d.msgs[s][i]
            said == Cardinality({j \in 1..i : d.msgs[s][j].run = m.run})
        IN  /\ m = Said(m.run, said)
            /\ said > 1 => d.msgs[s][i - 1].run = m.run

\* The rows of the calls of r with this id.
CallRows(d, r, id) ==
    {row \in d.rows : row.what = "call" /\ row.run = r /\ row.ids = <<id>>}

\* A tool message and the row of its call name the same run and the same step,
\* and an assistant message names the step of the first of its calls that has
\* a row, although ids come from the model and may be missing, repeated or used
\* before, and a hard stop leaves the end of a batch without rows.
AnswersJoinTheirStep ==
    \A d \in {db, disk} : \A s \in Sessions : \A i \in 1..Len(d.msgs[s]) :
        LET m == d.msgs[s][i] IN
        /\ m.what = "tool" => \E row \in CallRows(d, m.run, m.ids[1]) : row.n = m.n
        /\ m.what = "assistant" => \A k \in 1..Len(m.ids) :
              (\A j \in 1..(k - 1) : CallRows(d, m.run, m.ids[j]) = {})
                  => \A row \in CallRows(d, m.run, m.ids[k]) : row.n = m.n

\* The model a user switched to last stays, whatever runs, PATCH requests and
\* failing saves do after it: it is lost only to somebody who had read the row
\* before the switch and writes it back, or to a later switch that failed at
\* its commit.
SwitchKept ==
    \A s \in Sessions : db.model[s] # None /\ ~raced[s] => db.model[s] = acked[s]

\* The LLM of a run is in the planner that all sessions share only while that
\* run is inside begin_run, whatever runs and refreshes overlap or raise there:
\* no plan is made with the LLM of a run that is over.  (A refresh's LLM stays.)
PlannerReleased ==
    planner \in Runs => pc[planner] = "beginning"

\* A session's lock is released: no exception in the many saves after the
\* loop leaves the session busy for ever.
LockFreed == \A s \in Sessions : lock[s] # None ~> lock[s] = None

===============================================================================
