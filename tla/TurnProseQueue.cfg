\* A model that answers every turn in prose and never calls a tool.
SPECIFICATION Spec
CONSTANTS
    Kinds = {"send"}
    Outcomes = {"prose"}
    MaxCalls = 1
    MaxHeartbeats = 2
    MinMessages = 4
    Limit = 7
    Surplus = {0}
    MaxTurns = 12
    MaxFaults = 0
INVARIANT QueueBounded
CHECK_DEADLOCK FALSE
