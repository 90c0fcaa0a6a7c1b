SPECIFICATION Spec
CONSTANTS
    Files = {a, b}
    LogBased = {a}
    Fps = {p, q}
    None = None
    Failing = {"make", "post_create", "post_open", "info", "plain", "close", "flush"}
    WrappedClosed = TRUE
    MaxRefs = 2
    MaxFails = 2
SYMMETRY Symmetry
INVARIANT NeverOvercounted
CHECK_DEADLOCK FALSE
