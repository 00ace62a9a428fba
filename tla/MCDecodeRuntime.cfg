SPECIFICATION FairSpec
CONSTANTS
    k1 = k1
    k2 = k2
    k3 = k3
    p1 = p1
    Key <- Keys3
    Profile <- OneProfile
    ProfileOf <- SameProfile
    Blocks <- Lengths
    Estimate <- Estimates
    Footprint <- Footprints
    Configs <- Configs4
    Sizes = {1, 2, 4}
    Overrides = {3}
    MaxBytes = 3
    MaxPinned = 3
    SoftLimit = 3
    HardLimit = 4
    Memory = {0, 2, 3}
    Full = 4
    InitialRatio = 2
    MinRatio = 1
    Increase = 2
    Decrease = 1
    Stabilization = 2
    NoStep = NoStep
INVARIANTS
    TypeOK
    BytesExact
    SparseOnlyWhenAllowed
PROPERTIES
    ColdestGo
    SparseStaysOff
    PressureEnds
