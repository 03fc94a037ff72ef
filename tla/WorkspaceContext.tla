---------------------------- MODULE WorkspaceContext ----------------------------
(***************************************************************************)
(* What a session knows of its workspace, and the actors that make it old: *)
(* the tools of a run, a revert, a commit or a reindexing requested by     *)
(* REST, other programs, and a crash.  Composes the tree, git, the         *)
(* semantic index, the language server and the assembly of the context     *)
(* with the memories and the project rules, which are here.                *)
(*                                                                         *)
(* A tool call executes and is then told to the context manager, in two    *)
(* steps; a revert restores the files and then makes the session forget,   *)
(* in six, and takes no lock of the session.  Left out are memories        *)
(* without a file, which a revert of files does not touch, rules below the *)
(* root, rule files that are no text, and paths spelt with a leading dot,  *)
(* under which what is remembered is not found again.                      *)
(***************************************************************************)
EXTENDS GitWorkspace, SemanticIndex, LspClients, ContextAssembly

CONSTANTS
    Agent, Api,     \* a run of the session and its REST requests: both commit and index
    Revert,         \* the index a revert refreshes
    RuleFiles,      \* AGENTS.md, CLAUDE.md: a sequence, the preferred one first
    NoRule,
    Reverts,        \* what the snapshots restore: from the paths to a text or Absent
    TopK,           \* how many chunks and memories a retrieval takes
    Commands,       \* of run_command: [command, args, timeout, cwdOk]
    Starts          \* [tree, installed, left]: what a behaviour starts from, and
                    \* how many operations of each kind it has

ASSUME ContextAssumptions ==
    /\ Committers = {Agent, Api} /\ Indexers = Committers \cup {Revert}
    /\ ToSet(RuleFiles) \subseteq Files /\ NoRule \notin Contents
    /\ \A to \in Reverts : DOMAIN to \subseteq Files

VARIABLES
    memories,       \* the context manager's: <<file, content>>
    stored,         \* rows of memories that are not invalidated
    listed,         \* rows read at the end of a run and not yet assigned
    rules,          \* project_rules: per rule file what was read
    gitSection,     \* _cached_text of the git context, None before the first
    modified,       \* WorkspaceState.modified_files
    retrieved,      \* chunks and memories the last retrieval found: <<file, content>>
    run,            \* "idle", "starting", "retrieving", "planning", "running",
                    \* "listing", "ending"
    call,           \* the tool call that is executed and not yet told: [tool, file, seen]
    request,        \* the revert under way: [at, paths]
    settled,        \* history: paths of the last revert, once it is completed
    since,          \* history: memories added since a revert began
    quiet,          \* history: nothing was in flight when it began, no write since
    left            \* operations that are left, of each kind

knowledge == <<memories, stored, listed, rules, gitSection, modified, retrieved>>
history   == <<settled, since, quiet>>
control   == <<run, call, request>>
worktree  == <<files, gitVars>>
vars == <<worktree, indexVars, lspVars, installed, assemblyVars,
          knowledge, control, history, left>>

Idle      == [tool |-> "none", file |-> NoFocus, seen |-> Absent]
NoRequest == [at |-> "none", paths |-> {}]

Init ==
    /\ GInit /\ IInit /\ LInit /\ AInit
    /\ \E s \in Starts : files = s.tree /\ installed = s.installed /\ left = s.left
    /\ memories = {} /\ stored = {} /\ listed = {} /\ gitSection = None
    /\ modified = {} /\ retrieved = {}
    /\ rules = [f \in ToSet(RuleFiles) |-> NoRule]
    /\ run = "idle" /\ call = Idle /\ request = NoRequest
    /\ settled = {} /\ since = {} /\ quiet = FALSE

Spend(kind) == left[kind] > 0 /\ left' = [left EXCEPT ![kind] = @ - 1]

\* What may have read a file and not yet told what it read.
InFlight ==
    \/ call # Idle \/ run \in {"starting", "retrieving", "planning"}
    \/ \E w \in Indexers : Indexing(w)
    \/ \E w \in Committers : commit[w].at # "none"

Disturbed == quiet' = FALSE /\ UNCHANGED <<settled, since>>

-----------------------------------------------------------------------------
\* What the context manager reads of the workspace

\* discover_project_rules in the root, and merge_rules: a rule that is gone stays.
Discovered(tree) ==
    LET found == SelectSeq(RuleFiles, LAMBDA f : f \in Texts(tree))
    IN  IF found = <<>> THEN {} ELSE {found[1]}

RulesRead(known) ==
    [f \in DOMAIN known |-> IF f \in Discovered(files) THEN files[f] ELSE known[f]]

\* project_rules.invalidate
RulesDropped(paths) == [f \in DOMAIN rules |-> IF f \in paths THEN NoRule ELSE rules[f]]

\* _add_memory: the same content is not added twice, whatever file it is from.
Added_(known, m) == IF \E k \in known : k[2] = m[2] THEN {} ELSE {m}

\* Mutant: the cached list is kept.
ListCached == memories

\* list_memories
ListMemories == stored

\* invalidate_memories_for_paths, or all that have a file
Kept(paths) == {m \in stored : paths # {} /\ m[1] \notin paths}

-----------------------------------------------------------------------------
\* A run

StartRun ==
    /\ run = "idle" /\ Spend("run")
    /\ run' = "starting"
    /\ IF NothingIndexed THEN EnsureIndex(Agent) ELSE UNCHANGED indexVars
    /\ UNCHANGED <<worktree, lspVars, installed, assemblyVars, knowledge, call, request, history>>

\* begin_run: the rules, and the retrieval, which looks for an index again.
BeginRun ==
    /\ run = "starting" /\ ~Indexing(Agent)
    /\ run' = "retrieving"
    /\ rules' = RulesRead(rules)
    /\ IF NothingIndexed THEN EnsureIndex(Agent) ELSE UNCHANGED indexVars
    /\ UNCHANGED <<worktree, lspVars, installed, assemblyVars, memories, stored, listed,
                   gitSection, modified, retrieved, call, request, history, left>>

Findable == {<<f, chunks[f]>> : f \in {g \in Files : chunks[g] # Unknown}} \cup stored

\* Mutant: what is found is added to what was retrieved.
RetrieveMore(found) ==
    /\ found \subseteq Findable /\ Cardinality(found) <= TopK
    /\ retrieved' = retrieved \cup found
    /\ \/ run = "retrieving" /\ ~Indexing(Agent) /\ run' = "planning" /\ UNCHANGED left
       \/ run = "idle" /\ ~Indexing(Api) /\ Spend("plan") /\ UNCHANGED run
    /\ UNCHANGED <<worktree, indexVars, lspVars, installed, assemblyVars, memories, stored,
                   listed, rules, gitSection, modified, call, request, history>>

\* refresh_retrieval: what ranks is taken, and if nothing does the last stays.
\* Of a run, or of /plan refresh between runs.
Retrieve(found) ==
    /\ found \subseteq Findable /\ Cardinality(found) <= TopK
    /\ retrieved' = IF found = {} THEN retrieved ELSE found
    /\ \/ run = "retrieving" /\ ~Indexing(Agent) /\ run' = "planning" /\ UNCHANGED left
       \/ run = "idle" /\ ~Indexing(Api) /\ Spend("plan") /\ UNCHANGED run
    /\ UNCHANGED <<worktree, indexVars, lspVars, installed, assemblyVars, memories, stored,
                   listed, rules, gitSection, modified, call, request, history>>

\* begin_run: the sections of git and of the language server.
RefreshSections(outcome) ==
    /\ run = "planning"
    /\ run' = "running"
    /\ gitSection' = RenderStatus
    /\ RefreshLsp(focus, outcome)
    /\ UNCHANGED <<worktree, indexVars, installed, assemblyVars, memories, stored, listed,
                   rules, modified, retrieved, call, request, history, left>>

\* The loop ends with what it told: extract_after_run reads what is stored,
\* adds a memory with the first changed file, and the rows are listed.
EndRun(content, remembers) ==
    /\ run = "running" /\ call = Idle
    /\ run' = "listing"
    /\ SaveMessages
    /\ LET new == {<<f, content>> : f \in modified}
       IN  \E added \in {a \in SUBSET new : Cardinality(a) = IF remembers /\ new # {} THEN 1 ELSE 0} :
             /\ stored' = stored \cup UNION {Added_(stored, m) : m \in added}
             /\ since' = since \cup (stored' \ stored)
    /\ listed' = stored'
    /\ UNCHANGED <<worktree, indexVars, lspVars, installed, memories, rules, gitSection,
                   modified, retrieved, call, request, settled, quiet, left>>

\* The list is assigned, with whatever a revert has invalidated since it was
\* read, and the changed files are indexed.
AssignMemories ==
    /\ run = "listing" /\ ~Indexing(Agent)
    /\ run' = "ending"
    /\ memories' = listed /\ listed' = {}
    /\ since' = since \cup (listed \ stored)
    /\ IF modified = {} THEN UNCHANGED indexVars ELSE IndexPaths(Agent, modified)
    /\ UNCHANGED <<worktree, lspVars, installed, assemblyVars, stored, rules, gitSection,
                   modified, retrieved, call, request, settled, quiet, left>>

RunReturns ==
    /\ run = "ending" /\ ~Indexing(Agent)
    /\ run' = "idle"
    /\ UNCHANGED <<worktree, indexVars, lspVars, installed, assemblyVars, knowledge, call,
                   request, history, left>>

\* Something raises: begin_run, or the save of a step.
RunRaises ==
    /\ run \in {"starting", "planning", "running"} /\ call = Idle /\ ~Indexing(Agent)
    /\ Spend("raise")
    /\ run' = "idle"
    /\ IF saved < Len(conversation) THEN LoseMessages ELSE UNCHANGED assemblyVars
    /\ UNCHANGED <<worktree, indexVars, lspVars, installed, knowledge, call, request, history>>

-----------------------------------------------------------------------------
\* Tool calls execute.  What the result is about is the path it names, and
\* what it shows of the file there.

CanCall == run = "running" /\ call = Idle

unchangedByCall == <<indexVars, lspVars, installed, assemblyVars, knowledge, run, request>>

Looked(tool, file, seen) ==
    /\ CanCall
    /\ call' = [tool |-> tool, file |-> file, seen |-> seen]
    /\ UNCHANGED <<worktree, unchangedByCall, history>>

Wrote(tool, file, seen, tree) ==
    /\ CanCall
    /\ call' = [tool |-> tool, file |-> file, seen |-> seen]
    /\ IF tree = files
       THEN UNCHANGED <<worktree, history>>
       ELSE WriteFiles(tree) /\ Disturbed /\ UNCHANGED <<staged, tip, branch>>
    /\ UNCHANGED unchangedByCall

ReadFileTool(p) ==
    /\ Spend("look")
    /\ Looked("read_file", p, IF ReadAccepted(files, p) THEN files[p] ELSE Absent)

\* In the scope of one file; nothing is told of a scope without hits.
SearchCode(f, matching) ==
    /\ Spend("look")
    /\ \E hits \in Hits(files, matching, 1) :
          Looked("search_code", f, IF f \in hits THEN files[f] ELSE Absent)

ListFiles ==
    /\ Spend("look")
    /\ Looked("list_files", NoFocus, Absent)

WriteFileTool(p, content, overwrite) ==
    /\ Spend("edit")
    /\ IF WriteAccepted(files, p, overwrite)
       THEN Wrote("write_file", p, content, Written(files, p, content))
       ELSE Wrote("write_file", p, Absent, files)

EditFile(p, base, content) ==
    /\ Spend("edit")
    /\ IF ReplaceAccepted(files, p, base)
       THEN Wrote("edit_file", p, content, Written(files, p, content))
       ELSE Wrote("edit_file", p, Absent, files)

\* Decided, asked for, run: a command that ran may have changed a file, and
\* its result names none.
RunCommand(line, allowed, f, content) ==
    LET verdict == Decide(line.command, line.args)
        runs == verdict = "allow" \/ (verdict = "ask" /\ allowed)
    IN  /\ Spend("command")
        /\ IF runs
           THEN \E outcome \in Outcomes(line.command, line.timeout, line.cwdOk) :
                  Wrote("run_command", NoFocus, Absent,
                        IF Ran(outcome) THEN Written(files, f, content) ELSE files)
           ELSE Looked("run_command", NoFocus, Absent)

GitDiffTool(f, onlyStaged) ==
    /\ Spend("git")
    /\ Looked("git_diff", f, IF f \in DiffFiles(onlyStaged) THEN files[f] ELSE Absent)

GitStatusTool ==
    /\ Spend("git")
    /\ Looked("git_status", NoFocus, Absent)

CreateBranchTool(b) ==
    /\ CanCall /\ Spend("git")
    /\ GitDecide(GitToolSubcommand("git_create"), <<b>>) = "allow"
    /\ CreateBranch(b)
    /\ Disturbed
    /\ call' = [Idle EXCEPT !.tool = "git_branch"]
    /\ UNCHANGED unchangedByCall

\* The user has allowed it.
SwitchBranchTool(b) ==
    /\ CanCall /\ Spend("git")
    /\ GitDecide(GitToolSubcommand("git_switch"), <<b>>) = "ask"
    /\ SwitchBranch(b)
    /\ Disturbed
    /\ call' = [Idle EXCEPT !.tool = "git_branch"]
    /\ UNCHANGED unchangedByCall

\* The tool's preview; the user is asked next.
CommitTool(paths) ==
    /\ CanCall /\ Spend("git")
    /\ GitDecide(GitToolSubcommand("git_commit"), <<>>) = "ask"
    /\ Preview(Agent, paths)
    /\ call' = [Idle EXCEPT !.tool = "git_commit"]
    /\ UNCHANGED <<unchangedByCall, history>>

\* lsp_diagnostics and the rest: the tool's answer, then what Update refreshes.
LspTool(f, operation) ==
    /\ CanCall /\ Spend("lsp")
    /\ AskLsp(operation)
    /\ call' = [tool |-> "lsp", file |-> f, seen |-> IF Asked /\ ReadAccepted(files, f)
                                                     THEN files[f] ELSE Absent]
    /\ UNCHANGED <<worktree, indexVars, installed, assemblyVars, knowledge, run, request, history>>

\* update_after_tool
Writes      == {"write_file", "edit_file"}
GitTools    == {"git_status", "git_diff", "git_branch", "git_commit"}
NamesAPath  == call.file # NoFocus \/ call.tool = "list_files"

Update(remembers, outcome) ==
    /\ call # Idle /\ commit[Agent].at = "none"
    /\ rules' = IF NamesAPath THEN RulesRead(rules) ELSE rules
    /\ modified' = IF call.tool \in Writes THEN modified \cup {call.file} ELSE modified
    /\ gitSection' = IF call.tool \in GitTools THEN RenderStatus ELSE gitSection
    /\ IF call.tool \in Writes \cup {"lsp"}
       THEN RefreshLsp(call.file, outcome) ELSE UNCHANGED lspVars
    /\ LET new == IF remembers /\ call.seen # Absent
                  THEN Added_(memories, <<call.file, call.seen>>) ELSE {}
       IN  /\ memories' = memories \cup new
           /\ stored' = stored \cup new
           /\ since' = since \cup new
    /\ call' = Idle
    /\ UNCHANGED <<worktree, indexVars, installed, assemblyVars, listed, retrieved, run, request,
                   settled, quiet, left>>

-----------------------------------------------------------------------------
\* A revert by REST: revert_step, revert_run and _invalidate_context

\* What the revert makes of the files is ChangeRevert's; a part that failed
\* makes the whole report fail, and then nothing is forgotten.
RevertFiles(to, ok) ==
    /\ request = NoRequest /\ Spend("revert")
    /\ \A f \in DOMAIN to : StateKnown(files, f)
    /\ WriteFiles(Restored(files, to))
    /\ request' = IF ok THEN [at |-> "forget", paths |-> DOMAIN to] ELSE NoRequest
    /\ settled' = {} /\ since' = {} /\ quiet' = (ok /\ ~InFlight)
    /\ UNCHANGED <<staged, tip, branch, indexVars, lspVars, installed, assemblyVars,
                   knowledge, run, call>>

Forget ==
    /\ request.at = "forget"
    /\ modified' = IF request.paths = {} THEN {} ELSE modified \ request.paths
    /\ stored' = Kept(request.paths)
    /\ request' = [request EXCEPT !.at = "reload"]
    /\ UNCHANGED <<worktree, indexVars, lspVars, installed, assemblyVars, memories, listed,
                   rules, gitSection, retrieved, run, call, history, left>>

ReloadMemories ==
    /\ request.at = "reload"
    /\ memories' = ListMemories
    /\ request' = [request EXCEPT !.at = "sections"]
    /\ UNCHANGED <<worktree, indexVars, lspVars, installed, assemblyVars, stored, listed,
                   rules, gitSection, modified, retrieved, run, call, history, left>>

\* The rules only when the report names paths.
RevertSections(outcome) ==
    /\ request.at = "sections"
    /\ rules' = IF request.paths = {} THEN rules ELSE RulesRead(RulesDropped(request.paths))
    /\ gitSection' = RenderStatus
    /\ RefreshLsp(focus, outcome)
    /\ request' = IF request.paths = {} THEN NoRequest ELSE [request EXCEPT !.at = "index"]
    /\ UNCHANGED <<worktree, indexVars, installed, assemblyVars, memories, stored, listed,
                   modified, retrieved, run, call, history, left>>

RevertIndexes ==
    /\ request.at = "index"
    /\ IndexPaths(Revert, request.paths)
    /\ request' = [request EXCEPT !.at = "again"]
    /\ UNCHANGED <<worktree, lspVars, installed, assemblyVars, knowledge, run, call, history, left>>

\* The second invalidation is skipped when the indexing has raised.
RevertReturns(raised) ==
    /\ request.at = "again" /\ ~Indexing(Revert)
    /\ stored' = IF raised THEN stored ELSE Kept(request.paths)
    /\ settled' = request.paths
    /\ request' = NoRequest
    /\ UNCHANGED <<worktree, indexVars, lspVars, installed, assemblyVars, memories, listed,
                   rules, gitSection, modified, retrieved, run, call, since, quiet, left>>

-----------------------------------------------------------------------------
\* Other requests by REST

restOfSession == <<memories, stored, listed, rules, modified, retrieved, run, call, request>>

\* POST /git/commit is confirmed in the request, previews, commits, and tells
\* the context manager.
CommitRequest(paths) ==
    /\ Spend("commit")
    /\ Preview(Api, paths)
    /\ UNCHANGED <<indexVars, lspVars, installed, assemblyVars, knowledge, control, history>>

\* Steps of a commit, the agent's and the request's.
CommitStep(w) ==
    /\ \/ Allow(w)
       \/ Refuse(w) /\ w = Agent
       \/ StageCommit(w)
       \/ Commit(w)
       \/ CommitFails(w)
    /\ IF staged' = staged /\ tip' = tip THEN UNCHANGED history ELSE Disturbed
    /\ UNCHANGED <<indexVars, lspVars, installed, assemblyVars, knowledge, control, left>>

\* Only the request refreshes the section itself, if there is a manager by then.
CommitReturns(w) ==
    /\ Committed(w)
    /\ gitSection' \in IF w = Agent THEN {gitSection}
                      ELSE IF gitSection = None THEN {None, RenderStatus} ELSE {RenderStatus}
    /\ UNCHANGED <<indexVars, lspVars, installed, assemblyVars, restOfSession, history, left>>

\* memory_index, memory_search, and memory_rebuild, which the CLI has a command for.
IndexRequest ==
    /\ Spend("index")
    /\ IndexWorkspace(Api) \/ EnsureIndex(Api) \/ Rebuild(Api)
    /\ UNCHANGED <<worktree, lspVars, installed, assemblyVars, knowledge, control, history>>

IndexSteps(w) ==
    /\ IndexStep(w)
    /\ UNCHANGED <<worktree, lspVars, installed, assemblyVars, knowledge, control, history, left>>

LspRequest(operation) ==
    /\ Spend("lsp")
    /\ AskLsp(operation)
    /\ UNCHANGED <<worktree, indexVars, installed, assemblyVars, knowledge, control, history>>

-----------------------------------------------------------------------------
\* Others, and a crash

ProgramWrites(f, content) ==
    /\ Spend("other")
    /\ files[f] # content
    /\ WriteFiles(Written(files, f, content))
    /\ Disturbed
    /\ UNCHANGED <<staged, tip, branch, indexVars, lspVars, installed, assemblyVars,
                   knowledge, control>>

ProgramStages(f) ==
    /\ Spend("other")
    /\ StageElsewhere(f)
    /\ Disturbed
    /\ UNCHANGED <<indexVars, lspVars, installed, assemblyVars, knowledge, control>>

ProgramInstalls(what) ==
    /\ Spend("other")
    /\ Install(what)
    /\ UNCHANGED <<worktree, indexVars, assemblyVars, knowledge, control, history>>

\* The next process loads what is stored, and knows nothing else.
Crash ==
    /\ Spend("crash")
    /\ IndexCrash /\ LspCrash
    /\ IF saved < Len(conversation) THEN LoseMessages ELSE UNCHANGED assemblyVars
    /\ memories' = ListMemories /\ listed' = {}
    /\ rules' = RulesDropped(Files) /\ gitSection' = None /\ retrieved' = {}
    /\ run' = "idle" /\ call' = Idle /\ request' = NoRequest
    /\ commit' = [w \in Committers |-> NoCommit]
    /\ settled' = {} /\ since' = {} /\ quiet' = FALSE
    /\ UNCHANGED <<files, staged, tip, branch, installed, stored, modified>>

-----------------------------------------------------------------------------
\* The conversation of a workload that follows it.

Follows == left["message"] > 0

AssemblyStep ==
    /\ Follows
    /\ \/ run = "running" /\ \/ UserMessage \/ TextMessage
                             \/ \E n \in Batches, said \in BOOLEAN : CallMessage(n, said)
                             \/ \E cost \in ToolCosts : ToolMessage(cost)
                             \/ \E room \in Rooms : BuildContext(room)
       \/ CompactContext
       \/ \E room \in Rooms : ContextStatus(room)
    /\ UNCHANGED <<worktree, indexVars, lspVars, installed, knowledge, control, history, left>>

-----------------------------------------------------------------------------
Text == Contents \ Binary

RunStep ==
    \/ StartRun \/ BeginRun \/ AssignMemories \/ RunReturns \/ RunRaises
    \/ \E found \in SUBSET Findable : Retrieve(found)
    \/ \E outcome \in {"ok", "failed"} : RefreshSections(outcome)
    \/ \E c \in Text, remembers \in BOOLEAN : EndRun(c, remembers)

ToolStep ==
    \/ \E p \in Paths : ReadFileTool(p)
    \/ \E f \in Files, c \in Text : SearchCode(f, {c})
    \/ ListFiles
    \/ \E p \in Paths, c \in Text, overwrite \in BOOLEAN : WriteFileTool(p, c, overwrite)
    \/ \E p \in Paths, b, c \in Text : EditFile(p, b, c)
    \/ \E line \in Commands, allowed \in BOOLEAN, f \in Files, c \in Text \cup {Absent} :
          RunCommand(line, allowed, f, c)
    \/ GitStatusTool
    \/ \E f \in Files, onlyStaged \in BOOLEAN : GitDiffTool(f, onlyStaged)
    \/ \E b \in Branches : CreateBranchTool(b) \/ SwitchBranchTool(b)
    \/ \E paths \in SUBSET Files : CommitTool(paths)
    \/ \E f \in Sources, operation \in {"diagnostics", "definition"} : LspTool(f, operation)
    \/ \E remembers \in BOOLEAN, outcome \in {"ok", "failed"} : Update(remembers, outcome)

RevertStep ==
    \/ \E to \in Reverts, ok \in BOOLEAN : RevertFiles(to, ok)
    \/ Forget \/ ReloadMemories \/ RevertIndexes
    \/ \E outcome \in {"ok", "failed"} : RevertSections(outcome)
    \/ \E raised \in BOOLEAN : RevertReturns(raised)

RestStep ==
    \/ \E paths \in SUBSET Files : CommitRequest(paths)
    \/ \E w \in Committers : CommitStep(w) \/ CommitReturns(w)
    \/ \E w \in Indexers : IndexSteps(w)
    \/ IndexRequest
    \/ LspRequest("status")

OtherStep ==
    \/ \E f \in Files, c \in Contents \cup {Absent} :
          (f \in ToSet(RuleFiles) => c \notin Binary) /\ ProgramWrites(f, c)
    \/ \E f \in Files : ProgramStages(f)
    \/ \E what \in {"nothing", "server", "pyright"} : ProgramInstalls(what)
    \/ Crash

Next == RunStep \/ ToolStep \/ RevertStep \/ RestStep \/ OtherStep \/ AssemblyStep

Spec == Init /\ [][Next]_vars

-----------------------------------------------------------------------------
Forgotten(p) ==
    \A m \in memories \cup stored : m[1] = p => m \in since

Current(p) ==
    /\ p \in DOMAIN rules => rules[p] \in {NoRule, files[p]}
    /\ lspSection.status = "shown" /\ p \in DOMAIN lspSection.seen =>
          lspSection.seen[p] = files[p]
    /\ p \in Scan /\ files[p] \notin TooLarge \cup Binary
       /\ (\A w \in Indexers : ~Indexing(w)) => docs[p] = files[p]

\* Once a revert has returned, no memory of a reverted file from before it is
\* left, neither in the manager nor in the database, unless it was added since;
\* and unless a call was in flight or somebody has written since, the rules,
\* the git section, the diagnostics and the index show the files as they are.
\* Not forgotten are what was said, and what was retrieved: the manager shows
\* it in every assembly until a retrieval finds something else.
RevertForgets ==
    /\ \A p \in settled : Forgotten(p)
    /\ quiet /\ request = NoRequest =>
          /\ \A p \in settled : Current(p)
          /\ gitSection \in {None, RenderStatus}

\* What a search may find of a file that was reverted.
Anew(m) == m \in since \/ m[2] = files[m[1]]

\* The first retrieval that finds anything after a revert replaces all that was
\* retrieved before it by what is true: of a reverted file it finds no chunk
\* and no memory from before, unless somebody is indexing or was in the way
\* (RevertForgets), a crash or an overlap tore the file's row from its chunks,
\* or the file is one that is not indexed.
RetrievedAnew ==
    [][retrieved' # retrieved /\ quiet /\ request = NoRequest /\ (\A w \in Indexers : ~Indexing(w)) =>
          \A m \in retrieved' :
              m[1] \in settled \ torn /\ files[m[1]] \notin TooLarge \cup Binary => Anew(m)]_vars
===============================================================================
