CONSTANTS
    Calls = {c1, c2}
    Goroutines = {g1, g2}
    Jobs = {j1}
    NoJob = NoJob
    Concurrency = 1
    Retention = "loop"
    Payloads <- SlowPayload
    Budget = 2
SPECIFICATION Spec
INVARIANT SlowIsOrphaned
CHECK_DEADLOCK FALSE
