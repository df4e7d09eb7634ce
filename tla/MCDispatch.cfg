CONSTANTS
    TicksPerSecond = 2
    Jobs = {1, 2}
    Kinds = {k1, k2}
    Priorities = {0, 1, 2}
    RunAts <- SomeRunAts
    Skews = {0, 2}
    AgingInterval = 2
    MaxTime = 5
SPECIFICATION Spec
INVARIANTS TypeOK
PROPERTIES OvertakingBounded SamePriorityInOrder LeasedNearRunAt LeasesTheOldest
CHECK_DEADLOCK FALSE
