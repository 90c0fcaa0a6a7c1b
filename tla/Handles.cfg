SPECIFICATION FairSpec
CONSTANTS
    Files = {a, b}
    LogBased = {a}
    Fps = {p, q}
    None = None
    Failing = {"make", "post_create", "post_open", "plain", "close"}
    WrappedClosed = FALSE
    MaxRefs = 2
    MaxFails = 2
INVARIANTS RefsCounted NoDangling OneInstance NothingHeldIsClosed
PROPERTIES SharesFiles FilesClosed
CHECK_DEADLOCK FALSE
