CONSTANTS
    TicksPerSecond = 2
    Jobs = {j1}
    Workers = {w1}
    Recoverers = {r1}
    Clients = {c1}
    NoJob = NoJob
    Budgets = {2}
    RunAts <- Immediate
    LeaseDuration = 1
    MaxTime = 4
    MaxLeases = 2
SPECIFICATION Spec
INVARIANT ScannedIsExpired
CHECK_DEADLOCK FALSE
