SPECIFICATION FairSpec
CONSTANTS
    Updates = {u1, u2}
    Timers = {t1, t2}
    Closer = closer
    MaxFailures = 2
    MaxRestarts = 1
INVARIANTS
    IInv
    NothingForgotten
    DirtyIsScheduled
    CloseSaves
PROPERTIES
    EveryUpdateIsSaved
