SPECIFICATION FairSpec
CONSTANTS
    a = a
    b = b
    NP = 3
    Blocks = {a}
    NDset = 1
    Dset <- MCDsetOne
    Size <- MCSizeOne
    Merge = TRUE
    InOrder = FALSE
    AllocFails = FALSE
    FlushFirst = TRUE
    UniformReads = TRUE
    Addrs = {1, 3}
    MaxBytes = 2
    MaxWrites = 2
    MaxCalls = 3
PROPERTIES
    CallsReturn
