\* Two turns of one process at a provider with a budget of one request a day,
\* one of them with a provider to fall back on, across a midnight and a restart.
SPECIFICATION FairSpec
CONSTANTS
    first = first
    second = second
    turn1 = turn1
    turn2 = turn2
    job = job
    api = api
    cron = cron
    Unlimited = Unlimited
    Providers = {first, second}
    Callers = {turn1, turn2}
    Processes = {api}
    Chain <- MCChain
    ProcessOf <- MCProcessOf
    RequestLimit <- MCRequestLimit
    ServerRetries = 1
    DayLength = 2
    MaxNow = 2
    MaxServed <- MCMaxServed
    MaxRestarts = 1
INVARIANTS TypeOK OverspendBounded
PROPERTY EveryChatEnds
