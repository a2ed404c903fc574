\* Two tabs that are shown the same question, and a turn that asks another.
SPECIFICATION Spec
CONSTANTS
    Requests = {r1, r2, r3}
    NoRequest = NoRequest
    MaxQuestions = 2
    MaxResets = 0
    MaxTimeouts = 0
    MaxHangups = 0
    MaxCrashes = 0
INVARIANT ApprovalMatches
SYMMETRY Permuted
CHECK_DEADLOCK FALSE
