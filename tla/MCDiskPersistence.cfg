SPECIFICATION Spec
CONSTANTS
    k1 = k1
    k2 = k2
    k3 = k3
    Key <- Keys3
    MaxFiles = 2
    TargetFiles = 1
    RotateAt = 2
    MaxVersion = 4
    MaxFaults = 3
    NoFile = NoFile
    Torn = Torn
    Garbled = Garbled
    NoOp = NoOp
INVARIANTS
    TypeOK
    LoadsSound
    RecoverNamesWrites
PROPERTIES
    QuotaSound
