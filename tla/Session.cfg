\* Three requests with two questions between them, and one fault of every kind.
SPECIFICATION FairSpec
CONSTANTS
    Requests = {r1, r2, r3}
    NoRequest = NoRequest
    MaxQuestions = 2
    MaxResets = 1
    MaxTimeouts = 1
    MaxHangups = 1
    MaxCrashes = 1
INVARIANTS TypeOK OneTurnUnlessCutOff TurnsKept AnsweredOnce OwnEventsOnly
PROPERTIES QuestionKept LockComesBack
CHECK_DEADLOCK FALSE
