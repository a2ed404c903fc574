\* Tools, walks, passes and migrations over the stores of both backends; external tools
\* and trace spans.
SPECIFICATION FairSpec
CONSTANTS
    CharLimit = 3
    PageSize = 2
    Window = 3
    Batch = 1
    c1 = c1
    c2 = c2
    web = web
    files = files
    notes = notes
    Clients = {c1, c2}
    ServerClients = {c2}
    Threads = {c1, c2}
    TracedThreads = {c1, c2}
    Workloads <- MCWorkloads
    Registry <- MCRegistry
    Exports <- MCExports
    Wanted <- MCWanted
INVARIANTS TypeOK WithinLimit UpdatesKept WalkSeesAll WithheldStayHome RecordedHasPassage NothingCopiedTwice CopiedInOrder RunCopiesAll PassagesSurvive OneServerDown NodeRunsOnce
PROPERTY NodesEnd
CHECK_DEADLOCK FALSE
