SPECIFICATION Spec
CONSTANTS
    None = None
    Counts <- MCCounts
    Sizes = {7}
    NP = 2
    Nodes = 1
    MaxChanges = 2
    MaxSessions = 3
INVARIANTS TypeOK EntriesReadable FileListsStripped
 
CHECK_DEADLOCK FALSE
