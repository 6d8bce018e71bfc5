SPECIFICATION Spec
CONSTANTS
    n1 = n1
    n2 = n2
    ConceptIds = {1, 2, 3, 4, 5, 6, 7}
    MaxStrength = 2
    Concepts = {1, 2, 3, 4, 5, 6}
    Nodes = {n1, n2}
    Interactive = {n2}
    Refs <- MCRefs
    Cases <- MCCases
    Strict = FALSE
    Subtopics = {1, 2, 3, 4}
    Places = {1, 2, 3, 4}
    OrbitDelta <- MCOrbitDelta
    Express = {"express", "express_30s"}
    Core = {"core", "standard"}
    Variants = {"core", "old"}
    Formats = {"text"}
    ClientDeltas <- MCClientDeltas
    VeDims = 1
    VeMax = 1
    DefaultVe <- MCDefaultVe
    Students = {ana}
    Askers = {a1}
INVARIANTS
    TypeOK
    RoutesAreStudyPaths
    AdviceLeadsSomewhere
    AdviceIsBracketed
    ProgressIsExact
    OffersAreTaken
PROPERTIES
    TraversalsReach
CHECK_DEADLOCK FALSE
