\* Three turns, two calls a turn, plans of two steps (of one or none, when a save was
\* cut in two), one save that raises.
CONSTANTS
    MaxSteps = 3
    MaxBatch = 2
    PlanLengths = {2}
    MaxPlans = 2
    MaxFaults = 1
    None = None

SPECIFICATION Spec

INVARIANTS
    TypeOK
    CallsAnswered
    OneCompletionPerTurn
PROPERTIES
    AnswerEndsPlan
    ImplementsPlan
    RunEnds
