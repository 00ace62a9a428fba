SPECIFICATION Spec
CONSTANTS
    g1 = g1
    g2 = g2
    Geometry <- Geometries2
    PageTokens = 2
    MaxPages = 3
    Slab = 2
    Windows = {0, 1}
    MaxAppend = 4
    MaxTokens = 10
    MaxResets = 2
    NoGeometry = NoGeometry
    NoFlush = NoFlush
CHECK_DEADLOCK FALSE
INVARIANTS
    TypeOK
    Partition
    ViewsStable
    RefusedForCause
PROPERTIES
    HistoryImmutable
