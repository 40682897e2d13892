SPECIFICATION Spec
CONSTANTS
    Parts = {a, b}
    MetaObject = MetaObject
    MaxRuns = 3
    MaxPending = 3
SYMMETRY PartSymmetry
INVARIANTS
    WholeObjects
    NamedPartsThere
    CrashConsistent
    SuccessIsDurable
CHECK_DEADLOCK FALSE
