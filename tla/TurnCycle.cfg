\* Two turns, every tool, two rounds of two calls: approvals, evictions, warnings.
SPECIFICATION Spec
CONSTANTS
    Kinds = {"send", "core", "insert", "search", "web", "write", "unknown"}
    Outcomes = {"calls", "prose", "exhausted"}
    MaxCalls = 2
    MaxHeartbeats = 2
    MinMessages = 4
    Limit = 7
    Surplus = {0}
    MaxTurns = 2
    MaxFaults = 0
INVARIANTS TypeOK RawNeverRead TranscriptWellFormed ApprovedWritesOnly NoSilentTurn OneWarningPerTurn
PROPERTY UntrustedStaysOut
CHECK_DEADLOCK FALSE
