SPECIFICATION Spec
CONSTANTS
    Process = {p1, p2}
    MaxVersion = 4
    MaxKeys = 2
INVARIANTS
    ActedSurvives
    Readable
PROPERTIES
    NoRollback
    SavesAtomically
SYMMETRY Symmetry
