SPECIFICATION SlowSpec
CONSTANTS
    s1 = s1
    s2 = s2
    ana = ana
    luis = luis
    Stations = {s1, s2}
    Students = {ana, luis}
    Nobody = Nobody
    Absent = Absent
    Pollers = {p1}
    Owner <- MCOwner
    StationTTL = 0
    NodeTTL = 0
    GeneratorAvailable = TRUE
    MaxTime = 1
PROPERTIES
    ImplementsPromise
    QueryIsAnswered
