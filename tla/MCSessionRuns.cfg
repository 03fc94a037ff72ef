\* Two runs in one session or in two; a failing save, a crash, a session deleted
\* or its plan refreshed.  One run and two PATCH requests at a time on one row.
CONSTANTS
    Sessions = {s1, s2}
    Runs = {r1, r2}
    Models = {m1, m2}
    Patches = {p1, p2}
    a = a
    b = b
    None = None
    NoId = NoId
    s1 = s1
    s2 = s2
    r1 = r1
    r2 = r2
    m1 = m1
    Workloads <- MCWorkloads
    Traces <- MCTraces
    Scripts <- MCScripts

SPECIFICATION Spec
CHECK_DEADLOCK FALSE

INVARIANTS
    TypeOK
    CompletedIsWhole
    RunsDoNotMix
    AnswersJoinTheirStep
    SwitchKept
    PlannerReleased
    VersionMeansApplied
PROPERTIES
    LockFreed
