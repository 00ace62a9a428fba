SPECIFICATION Spec
CONSTANTS
    q1 = q1
    q2 = q2
    q3 = q3
    Request <- Requests2
    Slots = 1
    MaxTokens = 1
CHECK_DEADLOCK FALSE
INVARIANTS
    OneFinish
