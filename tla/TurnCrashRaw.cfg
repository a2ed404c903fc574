\* A turn cut short between dispatch_tools and sanitize_results, and the turn after it.
SPECIFICATION Spec
CONSTANTS
    Kinds = {"web"}
    Outcomes = {"calls", "prose"}
    MaxCalls = 1
    MaxHeartbeats = 2
    MinMessages = 8
    Limit = 20
    Surplus = {0}
    MaxTurns = 2
    MaxFaults = 1
INVARIANT RawNeverRead
CHECK_DEADLOCK FALSE
