SPECIFICATION Spec
CONSTANTS
    r1 = r1
    r2 = r2
    r3 = r3
    b1 = b1
    b2 = b2
    b3 = b3
    Request <- Callers3
    Block <- Blocks2
    Token <- Tokens
    Text <- TrimTexts
    BlockSize = 2
    CacheType <- OneType
    Usage <- Trims
    MaxCount = 3
    NoHash = NoHash
    NoTable = NoTable
    FakeHead = FakeHead
    FakeTail = FakeTail
    Nil = Nil
SYMMETRY Symmetric
CHECK_DEADLOCK FALSE
INVARIANTS
    TableCarriesText
