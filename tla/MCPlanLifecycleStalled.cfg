\* One fault is enough: the save of the task raises inside complete_current_step.
CONSTANTS
    PlanLengths = {1, 2, 3}
    MaxPlans = 2
    MaxFaults = 1
    None = None

SPECIFICATION Spec

INVARIANTS
    OpenPlanHasCurrentStep
