\* Two turns, either of which may be cut short anywhere by an exception or a crash.
SPECIFICATION Spec
CONSTANTS
    Kinds = {"core", "escape", "insert", "web", "write"}
    Outcomes = {"calls", "prose"}
    MaxCalls = 2
    MaxHeartbeats = 2
    MinMessages = 4
    Limit = 7
    Surplus = {0}
    MaxTurns = 2
    MaxFaults = 1
PROPERTY ImplementsContract
CHECK_DEADLOCK FALSE
