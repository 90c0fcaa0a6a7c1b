SPECIFICATION FairSpec
CONSTANTS
    NP = 3
    Placements <- MCPlaced
    Asked <- MCAsked
    None = None
    AllWrite = TRUE
    Rewrites = FALSE
    MaxWrites = 3
    MaxCalls = 4
    MaxSessions = 2
INVARIANTS TypeOK GroupsAgree OwnSubfile CountsTrue
PROPERTIES ReadFindsOwn CallsEnd
CHECK_DEADLOCK FALSE
