\* A turn and the consolidation job at the provider they share.
SPECIFICATION Spec
CONSTANTS
    first = first
    second = second
    turn1 = turn1
    turn2 = turn2
    job = job
    api = api
    cron = cron
    Unlimited = Unlimited
    Providers = {first}
    Callers = {turn1, job}
    Processes = {api, cron}
    Chain <- MCSharedChain
    ProcessOf <- MCSharedProcessOf
    RequestLimit <- MCSharedLimit
    ServerRetries = 1
    DayLength = 3
    MaxNow = 2
    MaxServed <- MCSharedServed
    MaxRestarts = 0
PROPERTY QuotaHeld
