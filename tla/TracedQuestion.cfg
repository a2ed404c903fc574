\* A node that asks the user inside an open span: the graph sees an exception instead.
SPECIFICATION Spec
CONSTANTS
    CharLimit = 3
    PageSize = 2
    Window = 3
    Batch = 1
    c1 = c1
    c2 = c2
    web = web
    files = files
    notes = notes
    Clients = {c1, c2}
    ServerClients = {c2}
    Threads = {c1, c2}
    TracedThreads = {c1, c2}
    Workloads <- MCTracedOnly
    Registry <- MCRegistry
    Exports <- MCExports
    Wanted <- MCWanted
INVARIANT TracingTransparent
CHECK_DEADLOCK FALSE
