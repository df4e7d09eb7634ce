CONSTANTS
    TicksPerSecond = 1
    Jobs = {j1}
    Workers = {w1, w2}
    Recoverers = {r1}
    Clients = {c1}
    NoJob = NoJob
    Budgets = {2}
    RunAts <- Immediate
    LeaseDuration = 1
    MaxTime = 2
    MaxLeases = 2
    EventCaps = {0}
    MaxEvents = 3
SPECIFICATION CalmSpec
SYMMETRY Symmetry
INVARIANTS HistoryVerifies
CHECK_DEADLOCK FALSE
