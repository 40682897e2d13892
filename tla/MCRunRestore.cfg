SPECIFICATION RunSpec
CONSTANTS
    Paths = {p1, p2}
    Workers = {w1, w2}
    NoPath = NoPath
INVARIANTS
    WholeFiles
    ExtractDurable
    NoTempLeft
    CauseReported
    ArchiveComplete
