SPECIFICATION Spec
CONSTANTS
    NDset = 2
    Dims <- MCPairDims
    MaxDims <- MCPairDims
    Extents = {}
    Record = {}
    ESize <- MCPairESize
    Requests <- MCPairRequests
    Queries <- MCPairQueries
    Queues = {}
    Merge = FALSE
    Share = TRUE
    Encode = TRUE
    SameRecord = FALSE
    Refused = {1}
    Unlinked = {}
    Reuses = TRUE
    Beyond = 0
    MaxWrites = 2
    MaxSections = 1
INVARIANTS
    RefsLand
CHECK_DEADLOCK FALSE
