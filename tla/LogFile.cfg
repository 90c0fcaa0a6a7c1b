SPECIFICATION Spec
CONSTANTS
    a = a
    b = b
    NP = 2
    Blocks = {a, b}
    NDset = 2
    Dset <- MCDset
    Size <- MCSize
    Merge = FALSE
    InOrder = TRUE
    AllocFails = FALSE
    FlushFirst = TRUE
    UniformReads = TRUE
    Addrs = {}
    MaxBytes = 6
    MaxWrites = 3
    MaxCalls = 4
INVARIANTS
    TypeOK
    LogIntact
    NoWriteLost
    ReadReturnsLatest
    CollectivesMatch
    ClosedStaysReadable
    NamesAreNew
