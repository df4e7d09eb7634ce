CONSTANTS
    NumJobs = 2
    Requests = {r1, r2}
    DefaultPageSize = 2
    MaxPageSize = 2
    AskedLimits = {0, 1}
    EventCaps = {0, 1}
    MaxChanges = 3
    MaxEvents = 2
SPECIFICATION Spec
SYMMETRY Symmetry
INVARIANTS TypeOK AnswersTrue OneRequeuePerDeath MissedAtMostLeft TimelineNotBehind
CHECK_DEADLOCK FALSE
