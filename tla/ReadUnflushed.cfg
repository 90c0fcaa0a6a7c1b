SPECIFICATION Spec
CONSTANTS
    a = a
    b = b
    NP = 2
    Blocks = {a}
    NDset = 1
    Dset <- MCDsetOne
    Size <- MCSizeOne
    Merge = FALSE
    InOrder = TRUE
    AllocFails = FALSE
    FlushFirst = FALSE
    UniformReads = TRUE
    Addrs = {}
    MaxBytes = 2
    MaxWrites = 2
    MaxCalls = 4
INVARIANTS
    ClosedStaysReadable
CHECK_DEADLOCK FALSE
