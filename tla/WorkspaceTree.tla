----------------------------- MODULE WorkspaceTree -----------------------------
(***************************************************************************)
(* Workspace: the one door through which tools, snapshots and reverts      *)
(* reach the files, as what each of its methods accepts and makes of the   *)
(* tree.  A write is atomic (a temporary file and a rename), so a file is  *)
(* one content of a small set; a text replacement is the content it was    *)
(* made for and the content it makes.                                      *)
(***************************************************************************)
EXTENDS Naturals, FiniteSets, FiniteSetsExt

CONSTANTS
    Files, Contents,
    Absent,         \* no such file
    Outside,        \* paths that resolve outside of the root
    Hidden,         \* files below .git, node_modules and the like
    Binary          \* contents that are no UTF-8 text

ASSUME TreeAssumptions ==
    /\ Absent \notin Contents /\ Files \cap Outside = {}
    /\ Hidden \subseteq Files /\ Binary \subseteq Contents

VARIABLE files      \* the tree

Paths == Files \cup Outside
Tree  == [Files -> Contents \cup {Absent}]

\* resolve_path: symbolic links are followed, then the root must contain it.
Resolves(p) == p \in Files

Present(tree) == {f \in Files : tree[f] # Absent}

Texts(tree) == {f \in Present(tree) : tree[f] \notin Binary}

-----------------------------------------------------------------------------
\* Readers.  A limit cuts what they return and changes nothing else.

ReadAccepted(tree, p) == Resolves(p) /\ p \in Texts(tree)

\* For a snapshot a missing file is a state like others.
StateKnown(tree, p) == Resolves(p) /\ (tree[p] = Absent \/ p \in Texts(tree))

\* search: the first hits, in files that are listed at all.
Hits(tree, matching, limit) ==
    LET hits == {f \in Texts(tree) \ Hidden : tree[f] \in matching}
    IN  {part \in SUBSET hits : Cardinality(part) = Min({limit, Cardinality(hits)})}

-----------------------------------------------------------------------------
\* Writers

WriteAccepted(tree, p, overwrite) == Resolves(p) /\ (tree[p] = Absent \/ overwrite)

Written(tree, p, content) == [tree EXCEPT ![p] = content]

\* Only when old_text occurs as often as expected: in the content it is from.
ReplaceAccepted(tree, p, base) == ReadAccepted(tree, p) /\ tree[p] = base

\* What a revert makes of the paths it is for: write_text with overwrite, or
\* delete_file for one that did not exist.
Restored(tree, to) == [f \in Files |-> IF f \in DOMAIN to THEN to[f] ELSE tree[f]]
===============================================================================
