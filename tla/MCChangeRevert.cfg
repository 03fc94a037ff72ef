\* Two files, two runs of two steps, two tracked calls (both in one step, one in
\* each step or one in each run), one edit of the user's, one restore that fails.
CONSTANTS
    Paths = {p1, p2}
    Texts = {a, b}
    Absent = Absent
    Binary = Binary
    MaxRuns = 2
    MaxSteps = 2
    MaxWrites = 2
    MaxEdits = 1
    MaxFaults = 1

SPECIFICATION Spec
SYMMETRY Symmetry
CHECK_DEADLOCK FALSE

INVARIANTS
    RestoresExactly
    RevertUndoable
