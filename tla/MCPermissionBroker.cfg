\* Two runs and a REST call on one session, two requests.
CONSTANTS
    Sessions = {s1}
    Runs = {run1, run2}
    Calls = {call1}
    RequestId = {q1, q2}
    None = None

SPECIFICATION Spec
\* The system may stop: nobody is obliged to ask again.
CHECK_DEADLOCK FALSE

INVARIANTS
    TypeOK
    SlotOwnership
    NoTimelyAnswerLost
    StatusProjection
PROPERTIES
    AskEnds
    ImplementsContract
