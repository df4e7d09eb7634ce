CONSTANTS
    Processes = {p1, p2}
    MaxOpens = 3
SPECIFICATION Spec
SYMMETRY Symmetry
INVARIANTS TypeOK OpenedIsComplete FailsByRaceOnly AlwaysOpenable
CHECK_DEADLOCK FALSE
