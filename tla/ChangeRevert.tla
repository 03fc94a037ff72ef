------------------------------ MODULE ChangeRevert -----------------------------
(***************************************************************************)
(* What the agent's write tools change, and how a revert takes it back.    *)
(*                                                                         *)
(* WriteChangeTracker reads a file when a write tool is called and when it *)
(* has finished.  After the run AgentService saves, for each step, one     *)
(* pre_step snapshot of the files the step's calls named.  RevertService   *)
(* saves a safety snapshot and writes the pre_step snapshots back, newest  *)
(* step first, file by file.  It takes no lock: the next run's tools and   *)
(* the user's editor write to the same workspace meanwhile.                *)
(***************************************************************************)
EXTENDS Naturals, Sequences, FiniteSets, FiniteSetsExt

CONSTANTS
    Paths, Texts,           \* files of the workspace; their UTF-8 contents
    Absent, Binary,         \* no file; content that is not UTF-8 text
    MaxRuns, MaxSteps,      \* bounds: runs, steps of a run
    MaxWrites,              \* bound: tracked calls of the write tools
    MaxEdits, MaxFaults     \* bounds: the user's edits, restores that fail

ASSUME ChangeAssumptions ==
    /\ Absent \notin Texts /\ Binary \notin Texts \cup {Absent}
    /\ {MaxRuns, MaxSteps} \subseteq Nat \ {0}
    /\ {MaxWrites, MaxEdits, MaxFaults} \subseteq Nat

State    == Texts \cup {Absent}             \* SnapshotFile
Content  == State \cup {Binary}             \* a file of the workspace
Snapshot == UNION {[S -> State] : S \in SUBSET Paths}
Empty    == [p \in {} |-> Absent]           \* no snapshot was saved
NoCall   == [path |-> Absent, before |-> Absent]
Write    == [run : 1..MaxRuns, step : 1..MaxSteps, path : Paths, before : State]

VARIABLES
    files,      \* the workspace
    pc,         \* the agent: its loop, a write tool, the saving of the changes
    run, step,  \* the agent's run and step; in "save", the step to save next
    call,       \* the call under way: its path and what the tracker read
    log,        \* the calls tracked: WriteChangeTracker.completed; history of all runs
    saved,      \* the pre_step snapshot of each step of each run
    revert,     \* the latest revert
    disturbed,  \* history: paths others wrote since the revert read them
    atStart,    \* history: the workspace when the latest revert began to write
    edits, faults

agent == <<pc, run, step, call, log, saved>>
vars  == <<files, agent, revert, disturbed, atStart, edits, faults>>

Runs  == 1..MaxRuns
Steps == 1..MaxSteps

\* A revert: the steps whose snapshots it restores, those left, the one it is
\* at, that snapshot's files still to write and those written, every file that
\* failed, the safety snapshot, and what it reports.
Revert == [pc      : {"none", "apply", "ended"},
           run     : Runs, steps : SUBSET Steps,
           left    : SUBSET Steps, at : Steps,
           todo    : SUBSET Paths, applied : SUBSET Paths,
           failed  : SUBSET Paths, safety : Snapshot,
           outcome : {"none", "ok", "failed", "raised"}]

NoRevert == [pc |-> "none", run |-> 1, steps |-> {}, left |-> {}, at |-> 1,
             todo |-> {}, applied |-> {}, failed |-> {}, safety |-> Empty, outcome |-> "none"]

Init ==
    /\ files \in [Paths -> State]
    /\ pc = "idle" /\ run = 0 /\ step = 1
    /\ call = NoCall /\ log = <<>>
    /\ saved = [r \in Runs |-> [s \in Steps |-> Empty]]
    /\ revert = NoRevert /\ disturbed = {} /\ atStart = Empty
    /\ edits = 0 /\ faults = 0

Put(p, c) ==
    /\ files' = [files EXCEPT ![p] = c]
    /\ disturbed' = IF revert.pc = "none" THEN {} ELSE disturbed \cup {p}

-------------------------------------------------------------------------------
(* The agent.                                                              *)

others == <<revert, atStart, edits, faults>>

StartRun ==
    /\ pc = "idle" /\ run < MaxRuns
    /\ run' = run + 1 /\ step' = 1 /\ pc' = "loop"
    /\ UNCHANGED <<files, call, log, saved, disturbed, others>>

NextStep ==
    /\ pc = "loop" /\ step < MaxSteps
    /\ step' = step + 1
    /\ UNCHANGED <<files, pc, run, call, log, saved, disturbed, others>>

\* tool_called: the tracker reads the file.
CallWrite(p) ==
    /\ pc = "loop" /\ Len(log) < MaxWrites
    /\ call' = [path |-> p, before |-> files[p]]
    /\ pc' = "called"
    /\ UNCHANGED <<files, run, step, log, saved, disturbed, others>>

\* write_file or edit_file replaces the file's text, or refuses to.
RunTool ==
    /\ pc = "called"
    /\ \/ \E c \in Texts : Put(call.path, c)
       \/ UNCHANGED <<files, disturbed>>
    /\ pc' = "finished"
    /\ UNCHANGED <<run, step, call, log, saved, others>>

\* tool_completed or tool_failed: a call whose file could be read is tracked,
\* whether or not it changed anything.
FinishWrite ==
    /\ pc = "finished"
    /\ log' = IF call.before = Binary THEN log
              ELSE Append(log, [run |-> run, step |-> step,
                                path |-> call.path, before |-> call.before])
    /\ call' = NoCall
    /\ pc' = "loop"
    /\ UNCHANGED <<files, run, step, saved, disturbed, others>>

EndRun ==
    /\ pc = "loop"
    /\ pc' = "save" /\ step' = 1
    /\ UNCHANGED <<files, run, call, log, saved, disturbed, others>>

\* The positions in log of the calls of a step for a file.
CallsFor(r, s, p) ==
    {i \in 1..Len(log) : log[i].run = r /\ log[i].step = s /\ log[i].path = p}

Tracked(r, s) == {p \in Paths : CallsFor(r, s, p) # {}}

\* WorkspaceSnapshot.create keeps one entry per path: the last.
PreStep(r, s) == [p \in Tracked(r, s) |-> log[Max(CallsFor(r, s, p))].before]

\* _persist_write_changes, one transaction per snapshot.
SaveStep ==
    /\ pc = "save" /\ step <= MaxSteps
    /\ saved' = [saved EXCEPT ![run][step] = PreStep(run, step)]
    /\ IF step = MaxSteps THEN pc' = "idle" /\ step' = 1
                          ELSE step' = step + 1 /\ UNCHANGED pc
    /\ UNCHANGED <<files, run, call, log, disturbed, others>>

\* The process stops, or the run raises after the loop: what the tracker
\* still has is lost, and a revert under way stays half done.
Stop ==
    /\ pc # "idle" \/ revert.pc = "apply"
    /\ pc' = "idle" /\ step' = 1 /\ call' = NoCall
    /\ revert' = IF revert.pc = "apply"
                 THEN [revert EXCEPT !.pc = "ended", !.outcome = "raised"] ELSE revert
    /\ UNCHANGED <<files, run, log, saved, disturbed, atStart, edits, faults>>

\* The user writes a file or deletes it.
Edit(p, c) ==
    /\ edits < MaxEdits
    /\ edits' = edits + 1
    /\ Put(p, c)
    /\ UNCHANGED <<agent, revert, atStart, faults>>

-------------------------------------------------------------------------------
(* RevertService.                                                          *)

HasSnapshot(r) == {s \in Steps : saved[r][s] # Empty}

\* revert_run restores every step's snapshot, revert_step one.
Targets(r) == IF HasSnapshot(r) = {} THEN {}
              ELSE {HasSnapshot(r)} \cup {{s} : s \in HasSnapshot(r)}

\* Mutant: the steps are restored oldest first.
OldestFirst(steps) == Min(steps)

\* The steps are restored newest first.
First(steps) == Max(steps)

\* Mutant: only the first snapshot's files go into the safety snapshot.
PathsOfFirst(r, steps) == DOMAIN saved[r][First(steps)]

PathsOf(r, steps) == UNION {DOMAIN saved[r][s] : s \in steps}

\* Allowed by the PermissionHandler (a refusal leaves everything as it was), it
\* saves the safety snapshot; a file that is not text stops the revert before it
\* has written anything.  The model runs one revert at a time.
StartRevert(r, steps) ==
    /\ revert.pc # "apply"
    /\ LET paths == PathsOf(r, steps)
           text  == \A p \in paths : files[p] # Binary
       IN  revert' = [run     |-> r, steps |-> steps, left |-> steps,
                      at      |-> First(steps),
                      todo    |-> IF text THEN DOMAIN saved[r][First(steps)] ELSE {},
                      applied |-> {}, failed |-> {},
                      safety  |-> IF text THEN [p \in paths |-> files[p]] ELSE Empty,
                      pc      |-> IF text THEN "apply" ELSE "ended",
                      outcome |-> IF text THEN "none" ELSE "raised"]
    /\ disturbed' = {}
    /\ atStart' = files
    /\ UNCHANGED <<files, agent, edits, faults>>

\* write_text or delete_file.
Apply(p) ==
    /\ revert.pc = "apply" /\ p \in revert.todo
    /\ files' = [files EXCEPT ![p] = saved[revert.run][revert.at][p]]
    /\ revert' = [revert EXCEPT !.todo = @ \ {p}, !.applied = @ \cup {p}]
    /\ disturbed' = disturbed \ {p}
    /\ UNCHANGED <<agent, atStart, edits, faults>>

\* The file is left out, and reported.
Reported(rv, p) == [rv EXCEPT !.todo = @ \ {p}, !.failed = @ \cup {p}]

ApplyFails(p) ==
    /\ revert.pc = "apply" /\ p \in revert.todo
    /\ faults < MaxFaults
    /\ faults' = faults + 1
    /\ revert' = Reported(revert, p)
    /\ UNCHANGED <<files, agent, disturbed, atStart, edits>>

\* The revert after the snapshot it is at: an exception when none of its files
\* could be written, or when a file is not text as the result is recorded;
\* the next snapshot; or the report.
AfterSnapshot(rv, text) ==
    LET left == rv.left \ {rv.at}
    IN  IF rv.applied = {} \/ (left = {} /\ ~text)
        THEN [rv EXCEPT !.pc = "ended", !.outcome = "raised"]
        ELSE IF left # {}
        THEN [rv EXCEPT !.left = left, !.at = First(left), !.applied = {},
                        !.todo = DOMAIN saved[rv.run][First(left)]]
        ELSE [rv EXCEPT !.pc = "ended",
                        !.outcome = IF rv.failed = {} THEN "ok" ELSE "failed"]

EndSnapshot ==
    /\ revert.pc = "apply" /\ revert.todo = {}
    /\ revert' = AfterSnapshot(revert, \A p \in DOMAIN revert.safety : files[p] # Binary)
    /\ UNCHANGED <<files, agent, disturbed, atStart, edits, faults>>

-------------------------------------------------------------------------------
Run == \/ StartRun \/ NextStep \/ RunTool \/ FinishWrite \/ EndRun \/ SaveStep
       \/ \E p \in Paths : CallWrite(p)

DoRevert == \/ \E r \in Runs : \E steps \in Targets(r) : StartRevert(r, steps)
            \/ EndSnapshot
            \/ \E p \in Paths : Apply(p) \/ ApplyFails(p)

Next == \/ Run \/ DoRevert \/ Stop
        \/ \E p \in Paths, c \in Content : Edit(p, c)

Spec == Init /\ [][Next]_vars

-------------------------------------------------------------------------------
(* Properties.                                                             *)

\* The types of files, tracker, snapshots and the revert under way.
TypeOK ==
    /\ files \in [Paths -> Content] /\ atStart \in [Paths -> Content] \cup {Empty}
    /\ pc \in {"idle", "loop", "called", "finished", "save"}
    /\ run \in 0..MaxRuns /\ step \in Steps
    /\ call \in [path : Paths, before : Content] \cup {NoCall}
    /\ log \in Seq(Write)
    /\ saved \in [Runs -> [Steps -> Snapshot]]
    /\ revert \in Revert
    /\ disturbed \subseteq Paths
    /\ edits \in Nat /\ faults \in Nat

\* What the first call of a step for a file found there, and whether the step
\* called a write tool for it more than once.
Found(r, s, p)   == log[Min(CallsFor(r, s, p))].before
Doubled(r, s, p) == Cardinality(CallsFor(r, s, p)) > 1

\* The first of the reverted steps that named the file.
FirstStep(p) == Min({s \in revert.steps : p \in DOMAIN saved[revert.run][s]})

Restored(p) == files[p] = Found(revert.run, FirstStep(p), p)

RevertedPaths == IF revert.pc = "ended" /\ revert.outcome = "ok"
                 THEN PathsOf(revert.run, revert.steps) \ disturbed ELSE {}

\* A revert that reports success has put back what the first of the reverted
\* steps found in each file, whatever later steps, runs and the user did to it
\* before, and whatever failed or was lost meanwhile; unless somebody wrote the
\* file again after it, or that step wrote the file twice.
RestoresExactly ==
    \A p \in RevertedPaths :
        ~Doubled(revert.run, FirstStep(p), p) => Restored(p)

\* Before a revert writes anything the safety snapshot holds every file it will
\* write, as it was, and it writes no other: a revert can itself be undone,
\* however it ends.
RevertUndoable ==
    revert.pc # "none" =>
        \A p \in Paths : IF p \in DOMAIN revert.safety
                         THEN revert.safety[p] = atStart[p]
                         ELSE p \in disturbed \/ files[p] = atStart[p]

\* "the changes made by one complete task can be rolled back as a whole"
\* (README.md:176).  Refuted: the snapshot of a step that wrote a file twice
\* holds what its second call found.
RunRestored == \A p \in RevertedPaths : Restored(p)
===============================================================================
