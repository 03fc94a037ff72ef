\* The bounds of MCChangeRevert.cfg; both calls fall into one step.
CONSTANTS
    Paths = {p1, p2}
    Texts = {a, b}
    Absent = Absent
    Binary = Binary
    MaxRuns = 2
    MaxSteps = 2
    MaxWrites = 2
    MaxEdits = 1
    MaxFaults = 1

SPECIFICATION Spec
SYMMETRY Symmetry
CHECK_DEADLOCK FALSE

INVARIANTS
    RunRestored
