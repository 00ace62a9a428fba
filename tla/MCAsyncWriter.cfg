SPECIFICATION FairSpec
CONSTANTS
    t1 = t1
    t2 = t2
    Load <- TwoTasks
    BatchSize = 2
    QueueSize = 1
    MaxRetries = 1
    DropOldest = TRUE
    Unsendable = {2}
    Attempts = 2
    MaxFaults = 3
    MaxSignals = 1
    NoFile = NoFile
    NoBatch = NoBatch
    Sentinel = Sentinel
CHECK_DEADLOCK FALSE
INVARIANTS
    TypeOK
    StatsNeverOvercount
PROPERTIES
    NothingVanishes
    ChannelSpec
    StopEnds
