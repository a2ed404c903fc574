\* A model that always calls tools, over many turns: the queue and the rounds are bounded.
SPECIFICATION FairSpec
CONSTANTS
    Kinds = {"send", "insert", "write"}
    Outcomes = {"calls"}
    MaxCalls = 2
    MaxHeartbeats = 2
    MinMessages = 4
    Limit = 7
    Surplus <- MCSomeSurplus
    MaxTurns = 3
    MaxFaults = 0
INVARIANTS QueueBounded BackstopUnused
PROPERTY TurnAnswered
CHECK_DEADLOCK FALSE
