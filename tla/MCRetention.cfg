CONSTANTS
    TicksPerSecond = 2
    Jobs = {j1, j2}
    Keys = {k1}
    NoKey = NoKey
    Callers = {c1, c2}
    NoJob = NoJob
    Failed = Failed
    Vanished = Vanished
    MaxJobAge = 1
    Policies = {{"age"}, {"age", "cap"}}
    MaxEventsPerJob = 1
    MaxTime = 3
    MaxEvents = 3
    MaxRuns = 2
SPECIFICATION Spec
SYMMETRY Symmetry
INVARIANTS TypeOK RemovedAddUp OneJobPerKey ConflictHasHolder
PROPERTY OnlyOldTerminal
CHECK_DEADLOCK FALSE
