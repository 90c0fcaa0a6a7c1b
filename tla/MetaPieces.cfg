SPECIFICATION FairSpec
CONSTANTS
    Unlimited <- MCUnlimited
    Buffers <- MCBuffers
    Widths = {1, 3}
    MaxSize = 2
    MaxSets = 2
INVARIANTS TypeOK 
PROPERTIES SearchedOnce ReadEnds
CHECK_DEADLOCK FALSE
