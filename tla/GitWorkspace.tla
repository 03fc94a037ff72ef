----------------------------- MODULE GitWorkspace ------------------------------
(***************************************************************************)
(* GitService on a workspace that is the root of its repository: status,   *)
(* diff, branches, and the commit, which shows a preview, waits for the    *)
(* user, stages and commits.                                               *)
(*                                                                         *)
(* A commit is made of four subprocesses with nothing that keeps others    *)
(* away in between: the agent's git_commit waits for a permission with its *)
(* preview taken, and POST /git/commit and other programs use the same     *)
(* work tree.  What git itself does is external.                           *)
(***************************************************************************)
EXTENDS WorkspaceTree

CONSTANTS
    Branches, Main,
    Committers,     \* who may have a commit under way: the agent, a request
    None

ASSUME GitAssumptions == Main \in Branches /\ None \notin Branches \cup Committers

VARIABLES
    staged,         \* git's index
    tip,            \* per branch its tree, None for one that does not exist
    branch,         \* HEAD
    commit          \* per committer the commit under way

gitVars == <<staged, tip, branch, commit>>

HeadTree == tip[branch]

\* porcelain: X is not blank, Y is not blank, ??
StagedFiles    == {f \in Files : staged[f] # HeadTree[f]}
UnstagedFiles  == {f \in Files : staged[f] # Absent /\ files[f] # staged[f]}
UntrackedFiles == {f \in Files : staged[f] = Absent /\ files[f] # Absent}

\* GitStatus.all_files
StatusFiles == StagedFiles \cup UnstagedFiles \cup UntrackedFiles

DiffFiles(onlyStaged) == IF onlyStaged THEN StagedFiles ELSE UnstagedFiles

\* The git section of the context: branch and changed files.
RenderStatus == [branch |-> branch, changed |-> StatusFiles]

ListBranches == {b \in Branches : tip[b] # None}

\* CommitPreview.files.  No paths stands for all changes.
PreviewFiles(paths) == IF paths = {} THEN StatusFiles ELSE paths

NoCommit == [at |-> "none", paths |-> {}, shown |-> {}, excused |-> {}]

GInit ==
    /\ files \in Tree
    /\ staged = files
    /\ branch = Main
    /\ tip = [b \in Branches |-> IF b = Main THEN files ELSE None]
    /\ commit = [w \in Committers |-> NoCommit]

-----------------------------------------------------------------------------
\* History of a commit under way, by which its preview is old or short: of a
\* commit of all changes the files written since, of one of named paths the
\* files that others had staged or have staged since.

Excuse(all, changed, who) ==
    [w \in Committers |->
        IF w = who \/ commit[w].at \in {"none", "done"} \/ (commit[w].paths = {}) # all
        THEN commit[w]
        ELSE [commit[w] EXCEPT !.excused = @ \cup changed]]

OutdateAll(changed)       == Excuse(TRUE, changed, None)
StagedBeside(changed, who) == Excuse(FALSE, changed, who)

\* A tool, a program or a revert writes the work tree.
WriteFiles(tree) ==
    /\ files' = tree
    /\ commit' = OutdateAll({f \in Files : tree[f] # files[f]})

\* git add by somebody else: a program, the user.
StageElsewhere(f) ==
    /\ staged[f] # files[f]
    /\ staged' = [staged EXCEPT ![f] = files[f]]
    /\ commit' = StagedBeside({f}, None)
    /\ UNCHANGED <<files, tip, branch>>

-----------------------------------------------------------------------------
\* git add, git commit, git switch

Added(paths) == [f \in Files |-> IF paths = {} \/ f \in paths THEN files[f] ELSE staged[f]]

\* fatal: pathspec did not match any files
AddRefused(paths) == \E f \in paths : files[f] = Absent /\ staged[f] = Absent

NothingToCommit == staged = HeadTree

\* Local changes are carried along, and never overwritten.
SwitchRefused(to) ==
    \/ to \notin ListBranches
    \/ \E f \in Files : HeadTree[f] # tip[to][f] /\ staged[f] # tip[to][f]
                        /\ (staged[f] # HeadTree[f] \/ files[f] # staged[f])

Switched(tree, to) ==
    [f \in Files |-> IF HeadTree[f] # tip[to][f] /\ staged[f] = HeadTree[f] THEN tip[to][f] ELSE tree[f]]

-----------------------------------------------------------------------------
\* build_commit_preview: with paths it shows those, and nothing of what is staged.
Preview(w, paths) ==
    /\ commit[w].at = "none"
    /\ commit' = [commit EXCEPT ![w] =
          [at |-> "shown", paths |-> paths, shown |-> PreviewFiles(paths),
           excused |-> IF paths = {} THEN {} ELSE StagedFiles]]
    /\ UNCHANGED <<files, staged, tip, branch>>

\* AlwaysAllowPermissionHandler, or the user's ALLOW.
Allow(w) ==
    /\ commit[w].at = "shown"
    /\ commit' = [commit EXCEPT ![w].at = "allowed"]
    /\ UNCHANGED <<files, staged, tip, branch>>

\* DENY, an interrupted wait, no handler: nothing was touched.
Refuse(w) ==
    /\ commit[w].at = "shown"
    /\ commit' = [commit EXCEPT ![w] = NoCommit]
    /\ UNCHANGED <<files, staged, tip, branch>>

\* Mutant: the paths are not passed on.
AddEverything(w) == Added({})

AddPaths(w) == Added(commit[w].paths)

\* GitService.commit: repo.add
StageCommit(w) ==
    /\ commit[w].at = "allowed"
    /\ IF AddRefused(commit[w].paths)
       THEN /\ commit' = [commit EXCEPT ![w] = [NoCommit EXCEPT !.at = "done"]]
            /\ UNCHANGED staged
       ELSE /\ staged' = AddPaths(w)
            /\ commit' = [StagedBeside({f \in Files : staged'[f] # staged[f]}, w)
                            EXCEPT ![w].at = "staged"]
    /\ UNCHANGED <<files, tip, branch>>

\* GitService.commit: repo.commit takes all that is staged now.
Commit(w) ==
    /\ commit[w].at = "staged" /\ ~NothingToCommit
    /\ tip' = [tip EXCEPT ![branch] = staged]
    /\ commit' = [commit EXCEPT ![w] = [NoCommit EXCEPT !.at = "done"]]
    /\ UNCHANGED <<files, staged, branch>>

\* Nothing to commit, a hook, a lock: what was staged stays staged.
CommitFails(w) ==
    /\ commit[w].at = "staged"
    /\ commit' = [commit EXCEPT ![w] = NoCommit]
    /\ UNCHANGED <<files, staged, tip, branch>>

\* The committer is told, and goes on.
Committed(w) ==
    /\ commit[w].at = "done"
    /\ commit' = [commit EXCEPT ![w] = NoCommit]
    /\ UNCHANGED <<files, staged, tip, branch>>

\* git_branch, action create: the policy allows it without asking.
CreateBranch(b) ==
    /\ tip[b] = None
    /\ tip' = [tip EXCEPT ![b] = HeadTree]
    /\ UNCHANGED <<files, staged, branch, commit>>

\* git_branch, action switch, once the user has allowed it.
SwitchBranch(b) ==
    /\ b # branch /\ ~SwitchRefused(b)
    /\ branch' = b
    /\ files' = Switched(files, b)
    /\ staged' = Switched(staged, b)
    /\ UNCHANGED <<tip, commit>>

\* A commit of all changes takes what its preview showed and what was written
\* in the work tree while the user was asked, nothing else: not a file that a
\* failed commit, a second committer or a program's git add has staged, and
\* nothing that a branch switched to has brought.  A commit of named paths
\* takes those and what others had staged before or since.
CommitsWhatWasShown ==
    \A w \in Committers : commit[w].at = "staged" =>
        StagedFiles \subseteq commit[w].shown \cup commit[w].excused
===============================================================================
