CONSTANTS
    Calls = {c1, c2}
    Goroutines = {g1, g2, g3}
    Jobs = {j1}
    NoJob = NoJob
    Concurrency = 2
    Retention = "loop"
    Payloads <- SomePayloads
    Budget = 2
SPECIFICATION FairSpec
INVARIANTS TypeOK TokensConserved OneRun PolicyDecides
PROPERTIES StopReturns OrphansReturn
CHECK_DEADLOCK FALSE
