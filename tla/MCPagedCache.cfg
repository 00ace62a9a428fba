SPECIFICATION Spec
CONSTANTS
    r1 = r1
    r2 = r2
    b1 = b1
    b2 = b2
    b3 = b3
    h0 = h0
    h1 = h1
    Request <- Callers2
    Block <- Blocks3
    Hash <- TwoHashes
    Prompt <- OnePrompt
    NoHash = NoHash
    DiskStore = TRUE
    MaxTable = 3
SYMMETRY Symmetric
INVARIANTS
    TypeOK
    RefCountExact
    FreeQueueExact
    HashMapSound
    StatsExact
PROPERTIES
    EvictsColdestFirst
    HitSavesBlock
    MemorySpec
