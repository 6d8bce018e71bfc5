SPECIFICATION Spec
CONSTANTS
    Updates = {u1, u2}
    Timers = {t1, t2}
    Closer = closer
    MaxFailures = 0
    MaxRestarts = 0
SYMMETRY Symmetry
INVARIANT
    QuietStoreIsSaved
