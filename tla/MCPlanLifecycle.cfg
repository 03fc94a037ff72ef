\* Plans of one to three steps, two plans, two faults; crashes are unbounded.
CONSTANTS
    PlanLengths = {1, 2, 3}
    MaxPlans = 2
    MaxFaults = 2
    None = None

SPECIFICATION Spec

INVARIANTS
    TypeOK
    PlanInOrder
    DurablePlanResumable
    BoundedLoss
PROPERTIES
    TaskBeforePlan
