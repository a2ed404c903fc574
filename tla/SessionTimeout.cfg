\* Two requests, the stream of the first of which hears nothing for too long.
SPECIFICATION Spec
CONSTANTS
    Requests = {r1, r2}
    NoRequest = NoRequest
    MaxQuestions = 1
    MaxResets = 0
    MaxTimeouts = 1
    MaxHangups = 0
    MaxCrashes = 0
INVARIANT OneTurnAtATime
SYMMETRY Permuted
CHECK_DEADLOCK FALSE
