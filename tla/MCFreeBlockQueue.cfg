SPECIFICATION QueueSpec
CONSTANTS
    b1 = b1
    b2 = b2
    b3 = b3
    b4 = b4
    b5 = b5
    Block <- Blocks5
    FakeHead = FakeHead
    FakeTail = FakeTail
    Nil = Nil
INVARIANTS
    QueueTypeOK
    WellLinked
PROPERTIES
    FIFOSpec
