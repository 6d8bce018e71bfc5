SPECIFICATION FairSpec
CONSTANTS
    MaxQueries = 3
    Calls = {c1, c2}
INVARIANTS
    SettledPageAgrees
PROPERTIES
    NeverBackToAnOlderSearch
    StationIsShown
CHECK_DEADLOCK FALSE
