SPECIFICATION Spec
CONSTANTS
    MaxQueries = 1
    Calls = {c1, c2}
INVARIANT
    WaitingIsPolled
CHECK_DEADLOCK FALSE
