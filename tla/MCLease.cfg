CONSTANTS
    TicksPerSecond = 1
    Jobs = {j1}
    Workers = {w1, w2}
    Recoverers = {r1, r2}
    Clients = {c1}
    NoJob = NoJob
    Budgets = {0, 2}
    RunAts <- Immediate
    LeaseDuration = 1
    MaxTime = 2
    MaxLeases = 3
SPECIFICATION Spec
SYMMETRY Symmetry
INVARIANTS TypeOK SingleHolder LeaseColumns FailDecisionFresh AttemptAccounting
PROPERTIES CompletedIsFinal ImplementsService
CHECK_DEADLOCK FALSE
