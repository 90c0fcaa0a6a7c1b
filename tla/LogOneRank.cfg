SPECIFICATION Spec
CONSTANTS
    a = a
    b = b
    NP = 1
    Blocks = {a, b}
    NDset = 2
    Dset <- MCDset
    Size <- MCSize
    Merge = FALSE
    InOrder = TRUE
    AllocFails = FALSE
    FlushFirst = FALSE
    UniformReads = FALSE
    Addrs = {}
    MaxBytes = 6
    MaxWrites = 3
    MaxCalls = 5
INVARIANTS
    ReadReturnsLatest
