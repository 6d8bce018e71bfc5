SPECIFICATION Spec
CONSTANTS
    ConceptIds = {1, 2, 3}
    MaxStrength = 2
    FileChoices <- MCFiles
    Runs = {r1, r2}
    Times = {1, 2}
    NoRel = NoRel
    Never = Never
    HandKeys <- MCHandKeys
    MaxHandEdits = 1
SYMMETRY MCSymmetry
INVARIANTS
    ReadersSeeOldOrNew
    RunReconciles
CHECK_DEADLOCK FALSE
