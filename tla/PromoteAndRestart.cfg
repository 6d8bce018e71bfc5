SPECIFICATION Spec
CONSTANTS
    sA = sA
    sB = sB
    d = d
    t1 = t1
    t2 = t2
    uSeed = uSeed
    uDemo = uDemo
    u1 = u1
    u2 = u2
    Stations = {t1}
    Seeds = {sA, sB}
    Demo = {d}
    Nodes = {sA, sB, d, t1}
    Ulids = {uSeed, uDemo, u1, u2}
    UlidOf <- MCUlidOf
    Points = {0, 3}
    Sim <- MCSim
    MaxSim = 10
    Margin = 2
    NodeTTL = 0
    NoNode = NoNode
    Students = {}
    Nobody = Nobody
    Absent = Absent
    StationTTL = 0
    Home <- MCHome
    Rank <- MCRank
    Buttons = {b1, b2}
    Thresholds = {8, 9}
    BuiltIn = 9
    EnvThreshold = Unset
    Unset = Unset
    MaxTime = 1
    MaxRestarts = 1
SYMMETRY MCSymmetry
INVARIANTS
    IInv
    PromotionIsDurable
    CreatedOnce
    ButtonsAreKept
    RegistryIsSearchable
    RepeatedDoubtIsMatched
CHECK_DEADLOCK FALSE
