\* The bounds of MCAgentLoop.cfg, for the claim about denied permissions.
CONSTANTS
    MaxSteps = 3
    MaxBatch = 2
    PlanLengths = {1, 2}
    MaxPlans = 2
    MaxFaults = 1
    None = None

SPECIFICATION Spec

INVARIANTS
    DenyContinues
