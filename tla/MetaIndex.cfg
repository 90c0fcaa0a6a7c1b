SPECIFICATION Spec
CONSTANTS
    NDset = 4
    Dims <- MCDims
    MaxDims <- MCMaxDims
    Extents <- MCExtents
    Record = {1}
    ESize <- MCESize
    Requests <- MCRequests
    Queries <- MCQueries
    Queues <- MCQueues
    Merge = FALSE
    Share = TRUE
    Encode = TRUE
    SameRecord = FALSE
    Refused = {3}
    Unlinked = {}
    Reuses = FALSE
    Beyond = 0
    MaxWrites = 3
    MaxSections = 2
INVARIANTS
    TypeOK
    OffsetsPredicted
    ListKeepsBlocks
    ListFindsWrites
    CompactFindsWrites
    QueuedReadsCorrect
CHECK_DEADLOCK FALSE
