\* docs/architecture.md:246 against the code: must be violated.
CONSTANTS
    Sessions = {s1}
    Runs = {run1}
    Calls = {call1}
    RequestId = {q1, q2}
    None = None

SPECIFICATION Spec
CHECK_DEADLOCK FALSE

INVARIANT WaitingMeansAsking
