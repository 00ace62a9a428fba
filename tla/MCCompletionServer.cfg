SPECIFICATION FairSpec
CONSTANTS
    q1 = q1
    q2 = q2
    q3 = q3
    Request <- Requests3
    Slots = 1
    MaxTokens = 2
CHECK_DEADLOCK FALSE
INVARIANTS
    TypeOK
    PermitsExact
    StreamInOrder
PROPERTIES
    EveryCallEnds
