SPECIFICATION FairSpec
CONSTANTS
    s1 = s1
    s2 = s2
    ana = ana
    luis = luis
    Stations = {s1}
    Students = {ana, luis}
    Nobody = Nobody
    Absent = Absent
    Pollers = {p1, p2}
    Owner <- MCOwner
    StationTTL = 1
    NodeTTL = 1
    GeneratorAvailable = TRUE
    MaxTime = 4
INVARIANTS
    SingleFlight
    RetryFlagTracksGeneration
    OneNodePerStation
    OwnerOnlyWhilePending
PROPERTIES
    ReadyIsFinal
    RetryFlagIsReleased
    PollIsAnswered
