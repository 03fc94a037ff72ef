# CodeWisp: a verification model

This directory models the parts of CodeWisp (`src/backend/app`) whose correctness depends on the
order in which things happen: what several threads, requests, saves and crashes may do to one
piece of state. It holds TLA+ specifications translated from the Python source, TLC
configurations that check them on small instances, and proofs that hold for every size.
`PROJECT.json` maps every definition to the lines it stands for; paths below are relative to
`src/backend/app`.

## 1. The system

CodeWisp is a coding agent: a CLI and a FastAPI server over one `AgentService`. A user's message
becomes a *run*: the agent loop asks an LLM, executes the tools it calls, feeds the results
back, and stops at an answer, a limit or an error.

| Component | State it keeps | Operations | What makes it correct |
|---|---|---|---|
| Permission broker (`permissions/broker.py`) | one pending slot per session: request, event, decision, cancelled | submit_and_wait, decide, cancel, get_pending | a verdict belongs to its request; an answer in time counts; every ask ends; slots keep their owners |
| Plan and task (`context/manager.py`, `persistence/context_repository.py`) | plan, task, the flag "completed this turn"; their rows in SQLite | begin_run, complete_current_step, update_after_*, refresh, invalidate, load | steps in order, never two current ones; the disk can be continued from after any crash |
| Agent loop (`agent/loop.py`) | conversation, step, status | run, with one LLM request and a batch of tool calls per turn | every call answered; the answer only at the end of the plan; every run ends |
| Change tracking and revert (`changes/`) | the writes of the current run; snapshots per step; a revert under way | tool_called/tool_finished events, saving, revert_step, revert_run | what a step found can be put back; a revert can itself be undone |
| AgentService (`services/agent_service.py`) | run locks, context managers, rows of runs, steps, tool calls, messages | run, revert, mcp_call_tool, refresh_plan, ... | one run per session; what is persisted tells the truth after a crash |
| Sessions, store (`session/`, `persistence/`) | SQLite, one connection for all threads | repositories, migrations | a run that is recorded as ended is whole; a recorded version has its tables |
| Context assembly (`context/manager.py`) | checkpoint, conversation | build_context, compact, status | no tool message without its call; a compacted view shows what fits and at most one batch more |
| Rules, memories (`context/project_rules.py`, `context/memory.py`) | cached rule files, memories per file, what was retrieved last | refresh, add, list, retrieve, invalidate | no memory, rule or index row from before a revert; the next retrieval finds nothing old |
| MCP (`mcp/`) | server processes, pending JSON-RPC requests, clients | connect, call_tool, reload, disconnect | a reply goes to its request; every request ends; no orphaned process |
| Workspace, tools (`workspace/`, `tools/`) | the files | read, write, search, run a command | atomic writes inside the root |
| Git (`git/`) | index, branches, the cached section | status, diff, branch, commit | a commit takes what its preview showed |
| Semantic index (`memory/`) | documents with their hash, chunks | index, search, invalidate, rebuild | the chunks are those of the hash |
| LSP (`lsp/`) | detection, clients, focus, the cached section | status, diagnostics, refresh | no diagnostics from before a revert |
| Planner, policies, providers (`planning/`, `execution/`, `mcp/policy.py`, `providers/`) | whose LLM the planner has | functions on texts and tables | total, and as strict as documented |
| CLI (`cli/`) | the current session | prompts and rendering | no state beside the session's |

How they interact. `AgentService.run` takes the session's run lock without waiting, creates the
run's row, lets the context manager make task and plan (`begin_run`), builds the tools and calls
`AgentLoop.run`, all in the request's own thread. The loop calls the context manager
synchronously. A tool that needs permission calls the status callbacks of the service and blocks
in the broker, which other HTTP threads read and answer. Events go through a sink to the
`WriteChangeTracker`. Only after the loop are steps, tool calls, snapshots and messages saved,
one transaction each, and the run completed. Reverts, REST calls of MCP tools, deletion of
sessions and the `/plan` commands reach the same objects without the run lock.

What is hard here: the broker reads its slot without the lock; a timeout races an answer; two
threads ask in one session; a save raises between two assignments; the process stops between two
statements; a commit makes another thread's half-written rows durable; a revert runs beside the
agent and the user, and caches are filled meanwhile; a batch of calls is cut short; a server
answers late or stops reading. The list, line by line, is `hazards` in `PROJECT.json`.

## 2. The modules

### PermissionContract and PermissionBroker
`PermissionContract` states what any authorisation dialogue promises: a request is settled at
most once, by an answer its user gave to it or by none, and its tool runs at most once and only
when allowed. `PermissionBroker` is the code:

* `pending` is `_pending`, `slot[r]` the `_PendingSlot` of request `r`; `pc` says where a thread
  is in `submit_and_wait`. The code holds the lock in three places only, and the actions are cut
  there: `Submit`/`SubmitRefused` (check and register), then without the lock `Wake` or
  `TimeOut` (`event.wait`), `ReadCancelled` and `ReadDecision` (two reads), then `Pop`. `Decide`
  and `Cancel` are the whole critical sections of `decide` and `cancel`.
* Runs ask through `run_command`, a git tool or an MCP tool (`RunAsks`, with the status
  callback); a REST call of an MCP tool asks without a run (`CallAsks`). `Return` is the tool
  after the verdict: the second callback, which depends on the kind of tool (`ResolvedCalled`),
  and the execution.
* `status` is the run's persisted status. `inTime`, `acks`, `verdict`, `ran` are history.

Left out: `cancel` has no caller in the application, but is modelled as part of the interface. A
decision that finds no slot or another request raises and changes nothing.

### PlanLifecycle
The plan and the task of a session in memory (`plan`, `task`, `signaled`, and `fresh`, the plan
that `/plan refresh` is saving), as the connection sees them (`connPlan`, `connTask`,
`connKept`) and committed (`dbPlan`, `dbTask`, `dbKept`). A plan is a sequence of step statuses
with an id. `phase` says which call is under way. A save of the task is a row and a commit
(`SaveTask`). A save of a plan is `PlanStatement` by `PlanStatement`: its row, the DELETE of its
steps, one INSERT per step; then its own commit (`SavePlan`, `SaveNewPlan`, `RefreshSaved`).
Each statement and commit may raise (`...Fails`); nothing is rolled back, so what has run stays
pending on the connection, or SQLite itself has dropped all that was uncommitted (`RolledBack`).
`OthersCommit` is the commit of any other repository or thread on that connection: it makes
durable what there is, also a save that is under way or has raised, and `torn` remembers that a
part of a save is on disk (`half`: on the connection). `Crash` may happen between any two
statements; `Load` then reads the row as it is, and `cut` says that it was a torn one. `Revert`
(`invalidate_after_revert`, without a lock) saves the task at any moment; it also stands for the
saves of the task when a memory is extracted. Titles, memories, checkpoints and the task's texts
are left out.

### AgentLoop
`AgentLoop.run` composed with `PlanLifecycle` (`P == INSTANCE PlanLifecycle`): every call of the
context manager is an action of that module, taken together with what the loop does. The LLM
answers nondeterministically with text or a batch of up to `MaxBatch` calls. A call is
`complete_plan_step` (`Signal`, then its saves) or another tool (`Handle`), any of which may
stop the run (`HardStop`, when the result says `permission_required`) or raise in
`update_after_tool` (`ObserveRaises`). `messages` is what the run adds to the conversation, with
the ids of calls and results. `Load`, `Revert`, `RefreshPlan` and `Crash` interleave with the
run. The ids of a batch are distinct, as an OpenAI-compatible server makes them.

### ChangeRevert
A workspace of a few files whose content is one of a few texts, absent, or not text.
`CallWrite`, `RunTool`, `FinishWrite` are the three moments of a write call (the tracker reads,
the tool writes or refuses, the tracker records); `SaveStep` saves one step's `pre_step`
snapshot after the run, with the last state recorded for each path, as
`WorkspaceSnapshot.create` does. `StartRevert` takes the safety snapshot, `Apply`/`ApplyFails`
restore one file, `EndSnapshot` goes on to the next older step, raises, or reports. `Edit` is
the user.

Simplifications: the safety snapshot is taken in one step; one revert runs at a time; a write is
atomic (`_atomic_write_text` renames a temporary file); post-revert and tool snapshots, which
nothing reads back, are left out.

### SessionRuns and SchemaMigration
`SessionRuns` is `AgentService.run` with all it saves. `db` is what the one connection sees,
`disk` what is committed; every commit, whoever makes it, makes all of `db` durable. After the
loop a run has an agenda (`Agenda`) of saves in the code's order: steps, tool calls, snapshots,
messages, completion; `Save` takes the next, which may be refused, raise, or write and raise at
its commit (`SaveRaises`, `SaveFailed`), as in the repositories. What the loop has left is one
of three traces: a write and an answer; a text the plan refuses, then a batch that begins with a
call without an id and is cut by a hard stop; a batch whose end is cut and repeats an id.
`planner` is whose LLM the one planner of all sessions has: `SetLlm` is `run` before `begin_run`
(its LLM, or None for a scripted one), `TakeLlm` the `finally` after it, `RefreshPlan` a `/plan
refresh`, which sets an LLM without a lock and never takes it away. A session's row is read, and
later written with all its columns, by a run's `touch_session` (`ReadRow`, `WriteRow`) and by
each PATCH of model, title or status (`PatchReads`, `PatchWrites`). PATCH, `Delete` and
`RefreshPlan` take no lock. `Crash` loses what is not committed. `Workloads` gives each start
its sessions and a number of requests, failing saves and crashes. `SchemaMigration`, which it
extends, opens the database: each statement of `executescript` is a step and commits itself, the
version is recorded afterwards; a statement that cannot be repeated (ALTER TABLE) raises after a
crash, at every start from then on.

### RpcContract, McpTransport and McpManager
`RpcContract` states what requests and replies promise: one outcome per request, and a reply
only if the server answered that request. `McpTransport` is `StdioJSONRPCTransport`: a thread
registers and writes under the lock (`Request`, `Write`) and waits without it (`Wake`,
`TimeOut`); the reader pops a slot under the lock and fills it without (`ReadReply`,
`FillSlot`). A write into a full pipe leaves its thread in `flush`, with the lock and stdin's
buffer (`Block`). `close()` is what the code does in its order (`closing`): `CloseBegins` sets
the flag and wakes the waiting, `CloseStdin` waits until no thread is in `flush`, `Terminate`
comes after it. The server (external) reads or stops reading, answers in any order, writes what
is no message, and exits. Pipes are bounded. `McpManager` is the manager with its clients for
one server, used by several threads without a lock: `Connect` creates a client or takes the one
in the table, starts a process, and sends `initialize`, the notification and two requests for
the tools, each of which may fail; `Disconnect`, `Reload`, `CallTool` and `SyncTools` do what
the code does between their reads. It takes from `McpTransport` that a message that is sent
ends, which is so unless the server stops reading for ever and a thread stays in `flush`.

### WorkspaceContext and its parts
Six modules of one component each, and their composition.

* `WorkspaceTree`: the methods of `Workspace` as what they accept and make of a tree of files.
* `GitWorkspace`: git's index, branches and trees; a commit by the agent or by REST is preview,
  permission, `git add` and `git commit` as separate steps (`Preview` to `CommitReturns`), and
  other programs stage files. `excused` is history, what makes a preview old or short: for a
  commit of all changes the files written since it; for one of named paths, whose preview shows
  nothing of the index, the files that others had staged before or staged since.
* `SemanticIndex`: `index_file` as the code's separate reads and writes (read, upsert the row,
  replace the chunks; or delete both), by a run, a revert and a request at once.
* `LspClients`: what is detected and cached for the life of the process, and the section of
  diagnostics.
* `ContextAssembly`: the tail of a conversation under a budget, `Repair` of the chain of calls,
  checkpoints (of which the code keeps how many messages there were, and summarises none). The
  rest of the context is a room left for the tail, any of `Rooms`; `view.fit` is how many
  messages had room, `view.twin` whether an earlier message equals the tail's first.
* `CommandPolicy`: the policies' tables, and how an execution may end.

`WorkspaceContext` adds memories, rules and the run: a tool call acts on the tree and is told to
the context manager (`Update`) in a later step, so that everything may happen in between. A
revert restores the files (`RevertFiles`) and then, in the code's order, makes the session
forget. `Retrieve` is a search of chunks and stored memories, by a run after `begin_run` has
indexed or by `/plan refresh`: any of what is there (`Findable`), at most `TopK`; what it finds
replaces `retrieved`, which every later context shows, and finding nothing leaves it. Other
programs write, stage and install. Each start in `Starts` is a workload with a bound on each
kind of operation.

Abstractions: an `Update` is one step at its end; one revert and one REST index request at a
time; the workspace is the root of its repository; rules of the root directory only, as UTF-8
text; memories that belong to a file; files that are spelt in one way.

### Operators without state
`StreamedReply` (how `LLMClient` puts a streamed reply together), `PlanParser`
(`parse_plan_json` and the planner's heuristics), `ModelSelection` (registries, keys, addresses,
`/model`) and `Chunking` are operators translated from pure functions. They are checked by
assumptions of the MC modules, which TLC evaluates over bounded inputs before it explores a
state: `StreamIsWhole` and `NothingRaises` (90 interleavings of a reply's chunks give the reply
that `chat` would give, and leave shown what a replay would show), `StepsAreSorted`,
`FirstPlanIsNew`, `ReplanKeepsSteps`, `HeuristicKeepsOneCurrent` (all lists of up to three
items), `ModelsResolve`, `AmbiguousNames` (all sets of environment variables and arguments of up
to two words), `ChunksCover` (all files of up to six lines), `PolicyFacts`. `FirstPlanIsNew` is
what `PlanLifecycle` takes for granted of a new plan.

### MC modules
`MC<Module>` extends the module for TLC; the `.cfg` files of the same name give the constants.
`MCMcp` is the one of `McpManager`.

## 3. The runs

| Run | Instance | Expect | Shows |
|---|---|---|---|
| `permission_broker` | 1 session, 2 runs, 1 REST call, 2 requests; ~197 000 states | pass | `SlotOwnership`: a waiting thread owns its session's slot and no slot outlives its thread. `NoTimelyAnswerLost`: an answer acknowledged during the wait is never a timeout. `StatusProjection`. `AskEnds`. `ImplementsContract`: refinement of `PermissionContract` |
| `permission_status` | 1 run | violation of `WaitingMeansAsking` | a command's ask refused by the broker leaves `waiting_permission` behind |
| `plan_lifecycle` | plans of 1 to 3 steps, 2 plans, 2 faults, any number of crashes and of commits by others; ~401 000 states | pass | `PlanInOrder`. `DurablePlanResumable`: the plan on disk can be continued, or its save was cut in two and it is a beginning of one that can. `BoundedLoss`: unless torn, the disk lacks one completed step, and one more per save that raised. `TaskBeforePlan` |
| `plan_stalled` | the same, 1 fault | violation of `OpenPlanHasCurrentStep` | a save that raises inside `complete_current_step` leaves a plan nobody can complete |
| `agent_loop` | 3 turns, batches of up to 2, plans of 2 steps (1 or none when torn), 1 fault; ~578 000 states | pass | `CallsAnswered`, `OneCompletionPerTurn`, `AnswerEndsPlan`, `ImplementsPlan` (`P!Spec`), `RunEnds` |
| `agent_loop_deny` | the same | violation of `DenyContinues` | a denied MCP tool stops a run that has a handler |
| `change_revert` | 2 files, 2 texts, 2 runs of 2 steps, 2 tracked calls, 1 edit, 1 failure; ~810 000 states up to symmetry | pass | `RestoresExactly`, `RevertUndoable` |
| `revert_twice` | the same | violation of `RunRestored` | two writes of a file in one step are not undone |
| `session_runs` | 3 workloads, each with 3 traces, 1 failing save, 1 crash and 2 migrations: 2 runs in one session or in two with 1 other request; 1 run and 3 steps of two PATCH requests on its row; ~680 000 states | pass | `CompletedIsWhole`: a run that is recorded as ended has all its rows and messages. `RunsDoNotMix`: a conversation is runs one after another, each a prefix. `AnswersJoinTheirStep`: a tool message names the step of its call's row, an assistant the step of the first of its calls that has a row. `SwitchKept`: no touch, title or status brings an older model back, unless it had read the row before. `PlannerReleased`: the shared planner has a run's LLM only inside that run's `begin_run`. `VersionMeansApplied`, `LockFreed` |
| `mcp_transport` | 3 threads, 2 requests, pipes of 1 message; ~24 700 states | pass | `ImplementsRpc`: refinement of `RpcContract`. `RequestsEnd`, `CloseEnds`: every request ends and a close ends the process, unless a thread stays in `flush` for ever |
| `mcp_manager` | 2 threads, 4 operations, 2 clients, 3 processes, 1 edit of the file; ~1 030 000 states up to symmetry | pass | `InitializedFirst`: nothing is sent to a server before it answered `initialize`. `NothingLeftRunning`: no orphaned process, while no two of connect, disconnect and reload overlap |
| `workspace_context` | 2 files, 3 contents, 10 workloads; ~1 546 000 states | pass | `CommitsWhatWasShown`, `ChunksMatchDocument`, `CallsKeptTogether`. `OverrunIsOneBatch`: the repair of a compacted tail adds at most the batch it cuts. `RevertForgets`: no memory, rule, section or index row is from before a revert. `RetrievedAnew`: what the next retrieval finds is not either |

Each violation is a disagreement between the code and a sentence of its documentation or tests;
`findings` quotes both. The passing runs state what holds in its place: `StatusProjection`
excludes exactly the refused command, `PlanInOrder` the stalled plan and one whose save was cut,
`RestoresExactly` exactly the file written twice.

Where a property has an exception, the exception is what the code does wrong (section 5):

* `PlanInOrder`, `DurablePlanResumable`, `BoundedLoss`: a commit by somebody else took a part of
  a plan's save (`torn`), or the plan in memory was loaded from such a row (`cut`).
* `SwitchKept`: somebody had read the row before the switch and writes it back, or a later
  switch failed at its commit (`raced`).
* `RequestsEnd`, `CloseEnds`: the server lives and never reads again, and a thread stays in
  `flush` (`Stuck`); then neither the requests nor the close end.
* `NothingLeftRunning`: overlapping connects orphan a process.
* `CommitsWhatWasShown`: a commit of named paths takes along what others have staged, before its
  preview or after it. A commit of all changes has one exception only, a file written after the
  preview.
* `ChunksMatchDocument`: a crash or two indexers in one file tear row and chunks apart, for good
  (`torn`).
* `CallsKeptTogether`: a last result too large for the tail stays without its call.
* `OverrunIsOneBatch`: an earlier message equals the first of the tail, and the repair starts
  there (`view.twin`).
* `RevertForgets`: memories a run added since the revert began may be of before (`since`), and
  whatever was in flight when it began (`quiet`) may fill a cache again. What was said and what
  was retrieved are not forgotten at all: `retrieved` stays until a retrieval finds something,
  and of that moment `RetrievedAnew` speaks, except for files that are torn, being indexed or
  never indexed.

A revert that was only partly successful invalidates nothing, and the property says nothing of
it.

Why the bounds are enough.
*Broker*: all its operations touch one session's entry; two requests let an old id meet a later
slot, and a run beside a REST call is every pair of threads the session lock admits; the proofs
cover the rest. *Plans*: three steps are a first, a middle and a last; the second fault can
follow the repair of the first, and any statement can be the last that another's commit took;
the proofs cover any length. *Loop*: three turns finish a plan of two steps, cut it short or
leave it open, two calls per batch allow a double signal and a batch cut in the middle.
*Reverts*: two tracked calls fall into one step, two steps or two runs, for one file or two; a
run of 3 steps and 3 calls (2.7 million states) was also checked and agrees. *Saved runs*: two
runs of one trace repeat each other's ids, in one session or across two, and the third trace
repeats an id in a batch that is cut; one crash may fall into a migration or a run; a failing
save may be any of the agenda; two PATCH requests and a touch are every pair of readers of a
row, of which one writes last. *Transport*: three threads are a writer that blocks, one that
waits and one that comes, and whoever closes is a fourth; a pipe of one message is full at once,
and two requests let a late reply meet a later slot. *Manager*: two threads make every pair of
operations overlap, three processes let each thread start one after another has lost its own.
*Workspace*: a workload gives each hazard its actors and leaves the others out, as the whole
product is out of reach; two indexers, two committers, two reverts, a failed run and a crash
each occur in one. Deadlock is checked for the plan and the loop. It is not for the others:
nobody need ask, edit, revert, connect or call again, and bounded operations run out.

Fairness. In `PermissionBroker` each thread inside an ask is weakly fair, since threads are
scheduled and `BrokerPermissionHandler` waits with a timeout of 600 s. Clients are not: nobody
need answer. In `AgentLoop` the run as a whole is weakly fair (`WF_vars(Run)`): its thread goes
on, an LLM request ends or times out in the HTTP client, a command has a timeout, an ask is
ended by `AskEnds` and a call of an MCP tool by `RequestsEnd`, outside the exception of that
property: a run whose MCP server never reads again does not end either. In `SessionRuns` each run is weakly fair for the same reasons. In
`McpTransport` each thread is strongly fair: its wait ends with the timeout, after which it
needs the lock, which the operating system grants in the end because others hold it for a moment
only, except while a write blocks. So is the thread that closes (`CloseRuns`), which waits for
stdin in the same way. Neither the server nor the reader is fair. The environment (other
requests, crashes) is not fair. `RunEnds` still holds when the process stops: a crash ends the
run.

## 4. The proofs

TLAPS checks these for every value of the constants. Each component's proofs are in its
`_proofs` module. **Every invariant and action property that a passing run checks, and every
refinement, is a theorem** (`TypeOK` of `ChangeRevert` is proved too, and no run checks it) for
any number of threads, runs, steps, files and messages that the constants allow:
`WorkspaceContext` has one agent, one REST request and one revert at a time by construction
(`ContextAssumptions`), with any files, contents, branches, rooms and workloads.

All proofs have one shape. A property is seldom inductive as it stands; an invariant that is
(`IInv`, or the name below) adds what the code relies on without saying so; one lemma per
action, or per group of actions that do the same to the state in question, shows that it is
kept; `Invariance` (or `...Always`) puts them together, and the theorems follow. `Fairness` is
used nowhere.

`PermissionBroker_proofs`. `IInv` adds to `TypeOK` and the properties: a thread inside an ask
has a session, a request and a tool (`AskHasOperands`); no two threads hold one request
(`OneOwner`); the verdict stays open until the thread is told (`OpenWhileAsking`); what stands
in a slot was acknowledged for that request (`DecisionIsAcked`) and does not go away between the
two unlocked reads (`CheckedHasDecision`); an answer in time has set the event
(`InTimeSetsEvent`); the status follows the ask (`StatusFollows`). `RefinesInit` and
`RefinesStep` map each step to one of `PermissionContract` or to a stutter (`ContractHolds`).

`PlanLifecycle_proofs`. `IInv` is `TypeOK` and four parts. *Memory* (`MemInv`): `PlanInOrder`;
inside `complete_current_step` the plan is between two steps (`PausedInside`); what is about to
be saved can be continued from (`SavesResumable`); a new plan is unfinished (`NewPlanOpen`).
*Rows* (`RowsInv`): a row of the connection or of the disk is a beginning of a plan in order,
and one that can be continued from unless a part of a save is in it (`RowOK`); the row a refresh
has left behind is at least the former. *The save under way* (`WrittenInv`): after the row and
the DELETE, the connection has as many steps as were inserted. *Task and plan* complete
together, task first (`DoneTogether`). A commit by others then needs no case of its own: it
makes the disk what the connection is, with `torn` what `half` was. Lemmas say what completing,
activating, creating and cutting short do to the order of a plan of any length. `LossBounded`
counts: plans carry ids that were given out (`IdsGiven`), and a row that is not torn is behind
by one step per fault and by one more inside `complete_current_step` (`LossBound`).
`NothingUnsaved` is stronger than what a run checks: while no save has raised, disk and memory
are equal whenever no operation is under way (`InStep` says what may differ in each phase).

`AgentLoop_proofs`. Every step of the loop is a step of `PlanLifecycle` or leaves it alone
(`RefinesStep`, `PlanHolds`), so the theorems of `PlanLifecycle_proofs` hold of the loop, where
they are used through an INSTANCE. `LInv` adds: where the run is tells in which phase the plan's
calls are (`PhaseOfPc`); the loop has a plan (`LoopHasPlan`); the calls of a batch are open
while they are handled (`BatchOpen`); a turn has one completion to spend, and an answer is a
turn that has not (`OneToSpend`). `AnswerEndsPlanHolds` combines it with `InStep`: what was
answered is on disk.

`ChangeRevert_proofs`. `IInv` adds: a write tool is called by a run (`CallInHand`); a snapshot
is what the log says of its step, and the log is closed for a run that has snapshots
(`SavedAsTracked`); a revert takes the snapshots newest first (`InOrder`); of those it has been
through, the oldest is what the file holds, unless it was reported or somebody else wrote it
(`OldestWritten`). With `RevertUndoable` this is inductive; when nothing is left, the oldest is
the first step's (`RestoresExactlyHolds`).

`McpTransport_proofs`. `IInv` adds: a thread in `request` has an id that nobody else has and
that was told nothing (`IdsHeld`); ids not given out have no outcome (`NewIsUntold`); what is on
its way as a reply was answered by the server (`RepliesServed`). Each step is one of
`RpcContract` or a stutter (`RpcHolds`).

`McpManager_proofs`. No lock orders these threads, so `IInv` says of each place in `connect` and
`disconnect` what its thread holds (`Shapes`), that a transport gets into a client, and a
message other than `initialize` to a thread, only after the answer (`ReadyFirst`), and, as long
as nobody has overlapped (`Alone`): one thread manages (`OneManager`), on the client in the
table (`WorksOnTable`); a client whose process lives is initialized or about to be closed
(`LivesInitialized`); who starts a process has no other (`OwnOnly`). The condition is the code's
flaw, not the proof's: section 3 says what overlapping connects do.

`SessionRuns_proofs`, in four layers. *Migrations* (`MInv`): versions are recorded in order,
each after its statements, and the script that is run is the first that is missing; crashes may
fall anywhere. *Base*: `Types`; where a run is tells its agenda (`Points`); it holds its
session's lock (`Locked`); rows and messages hang on rows that exist (`Rooted`, of the
connection and of the disk). *Planner and model*: who of the runs has the planner is inside
`begin_run` (`Borrowed`); a row, and what a touch or a PATCH has read of it and will write back,
is what was acknowledged last unless they raced (`Current`, `ReadCurrent`). *Worth*: before its
loop has returned a run has left nothing but its row (`Blanks`); a run that saves has saved its
agenda up to where it is and its last message is the last of its session (`Underway`); every
message is the next its run had to say, after the rows (`InOrder`), a run that has ended has
left everything (`Ended`), and the row of a call is of a call that the loop got to, one per id
(`Called`). These hold of the connection's view and of the disk, since any thread's commit makes
the one the other. The three properties follow from `Worth` by lemmas on the sequences an agenda
is made of: what a flattened sequence of batches contains, and where. `LeastOf` stands in for
induction where one is needed: a set of numbers that has a member has a least one.

`WorkspaceContext_proofs`. The composition has some forty actions and six properties of
different parts, so the proof first shows, for each part, that any step of `Next` is one of a
few *moves* of that part (`IndexMove`, `GitMove`, `AssemblyMove`, `MemoryMove`, `QuietMove`) and
then reasons about those only. *Index* (`IndexInv`): who is about to insert chunks has written
the row they are of, unless the file is torn (`WrittenFirst`). *Git* (`GitInv`): from the
preview on, a file beyond what was shown or excused is staged as in HEAD and, where all changes
are to be added, the same in the work tree (`Accounted`). The commit of another committer, its
failure, and a branch switch keep that. *Context* (`AssemblyInv`): in the conversation every
result follows its call and its batch (`ConversationInv`), also when messages of a failed run
are lost (`SavedInv`); lemmas say what a tail under a budget is (`TailIs`), that the repair and
the pruning leave no result without its call (`RepairIs`, `RecentIs`), and that between the
first message of a cut batch and its call there is only that batch (`Together`), which is what
`OverrunIsOneBatchHolds` counts. *Reverts* (`MemoryInv`, `KnowledgeInv`): at each stage of a
revert, which memories are since it began; and, while it is quiet, which sections, rules and
rows are of the files as they are, and that a row that is not is still to be done by an indexer
that will not give up (`Reindexed`), while the chunks of a file that is gone are deleted with
its row or still to be (`Cleared`). Then a retrieval finds only what is true (`FoundAnew`), and
`RetrievedMoves` says that nothing but a retrieval and a crash changes what was retrieved
(`RetrievedAnewHolds`). Of "nothing was in flight", the proof needs only that nobody was
indexing and that no file is written after.

Assumptions on constants, which TLC evaluates in the runs: `DistinctValues`, `PlanAssumptions`
(and `PlanConstants` in the loop), `LoopAssumptions`, `ChangeAssumptions`,
`TransportAssumption`, `ManagerAssumption`, `ScriptsAssumption`, `RunsAssumption`,
`TracesAssumption`, `TreeAssumptions`, `GitAssumptions`, `IndexAssumptions`,
`AssemblyAssumptions`, `ContextAssumptions`, `LspAssumptions`. They say that values meant to be
different are (`None` is no run), that bounds are numbers, that plans and batches are not empty,
that traces are sequences of batches of which only the last may be cut, that files outside the
workspace are none of its files. Nothing is assumed of a state or of an order of events.

Only model-checked: the liveness properties `AskEnds`, `RunEnds`, `RequestsEnd`, `CloseEnds` and
`LockFreed`, which need fairness and ENABLED and are out of the prover's reach; and the
operators without state (`PlanParser`, `StreamedReply`, `ModelSelection`, `Chunking`,
`CommandPolicy`): what a recursive definition computes for every input would need induction over
data, so TLC evaluates their facts on bounded inputs. The four violations are counterexamples
and need no proof.

## 5. What a reader of the code may want to know

Met while modelling; the models do as the code does. Four disagreements with a document have a
run and a finding of their own (section 3). The following are exceptions of a property that
passes, with the sentence they are at odds with, where there is one:

* A plan whose save was cut in two by another repository's commit is loaded with the steps it
  has (`context/manager.py:449`, `persistence/context_repository.py:141`), and is finished when
  those are done.
* `touch_session` is called a "no-op update" (`session/service.py:109`), but writes back every
  column it has read, and so does a PATCH of the title or the status: either may undo a model
  switch that was acknowledged meanwhile.
* `/plan refresh` gives the shared planner an LLM without a lock
  (`services/agent_service.py:505`) and leaves it there, though the comment at
  `agent_service.py:827` has plans within the loop always made by heuristics. A run's `finally`
  may also take it from a refresh that is planning.
* `close()` of a transport closes stdin before it terminates the process
  (`mcp/transport.py:70-71`): while a thread is blocked in `flush`, it waits, and `terminate`
  and `kill` are not reached.
* The preview of a commit of named paths shows those only, while `repo.commit`
  (`git/service.py:152`) takes all that is staged; the README (`README.md:203`, `426`) has the
  user confirm a preview of the commit.
* The repair of a tail looks for its first message by equality (`context/manager.py:1002`), and
  may find an earlier one like it: a compacted view is then longer than its budget
  (`manager.py:774`, `801`).
* A checkpoint keeps the number of messages it was made of, and no summary of them
  (`manager.py:838-852`).
* What was retrieved before a revert is shown after it until a retrieval finds something
  (`manager.py:711`, `241-249`); `docs/development-log.md:106` has a revert invalidate index and
  memory, and says nothing of it.

And these no document denies:

* `git_branch` creates a branch without asking, as the policy lists `branch` under the read-only
  subcommands (`git/policy.py`), while the tool's description says that create and switch need
  permission. `run_command`'s policy and git's list different subcommands. The entry for `npx
  --yes` (`execution/policy.py`) never matches, since the first argument that is looked up is
  one without a dash.
* Paths are remembered as the LLM spelt them, without leading dots (`context/tool_output.py`):
  memories of dot-files, or of another spelling, are not forgotten by a revert, and dot-files
  are never indexed.
* In a workspace below its repository's root, the paths of a commit are relative to the root.
* Chunks by class, function or header leave out the lines before the first one
  (`memory/chunking.py`); `ChunksCover` says exactly that.
* A document whose chunks a crash has lost is not indexed again until its content changes or the
  index is rebuilt.
* An `AGENTS.md` that is not UTF-8 raises out of `refresh_project_rules`. What was detected of
  language servers is kept until the process ends. A timed-out command's own children go on
  writing.
* `agent_service.py:1017` assigns the list of memories at the end of a run, read a moment
  before, and may bring back what a revert has invalidated in between.
* `PlannerService.replan` has no caller but a test. With every step completed it would take up
  the first one again (`Replanned`).

## 6. Not modelled, and what is left

Not modelled: *manual snapshots* (used by tests only) and *diffs* for display; the *CLI*, one
thread that prompts and renders, whose commands that change state are actions of the modules
above. In the components that are modelled in part: texts and their ranking (prompts, titles,
embeddings, search results, the priorities of context sections), parsing of git's, LSP's and the
configuration's texts, SQLite's locking between processes, process groups and signals, the
schemas and error codes of HTTP. `components` in `PROJECT.json` gives the line for each. One
listed hazard has no property: the tracker does not record a write to a file it cannot read as
text (`changes/tracker.py:64`), which is by its design; `ChangeRevert` does the same.

What the proofs have left: safety facts that the liveness properties rest on and that need no
fairness (a run that is under way has a bounded number of steps of its own before it; an ask
that has timed out cannot wait again; who holds the transport's lock is writing), which would
leave to TLC only that threads are scheduled; theorems for operators without state where no
induction is needed (`CommandPolicy`, `ModelSelection`); and a `WorkspaceContext` for any number
of concurrent REST requests.
