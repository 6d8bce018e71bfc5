SPECIFICATION FairSpec
CONSTANTS
    ana = ana
    luis = luis
    Students = {ana, luis}
    Pages = {ana}
    NoStudent = NoStudent
    Secrets = {k1, k2}
    NoSecret = NoSecret
    NoToken = NoToken
    SessionTTL = 1
    MaxRetries = 1
    Calls = {c1}
    MaxRestarts = 2
    MaxTime = 2
INVARIANTS
    ActsAreCovered
PROPERTIES
    MaterialBecomesStation
    EverythingEnds
CHECK_DEADLOCK FALSE
