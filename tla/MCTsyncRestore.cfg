SPECIFICATION RestoreSpec
CONSTANTS
    k1 = k1
    k2 = k2
    top = top
    dir = dir
    Keys = {k1, k2}
    Hashes = {top, dir}
    Sub <- MCSub
    Leaf <- MCLeaf
    VersionIDs = {v1, v2}
    NoTree = NoTree
    NoVersion = NoVersion
    MaxRuns = 3
INVARIANTS
    TypeOK
    RecordsBacked
    ContentsRecorded
    TreesComplete
    NoLeak
    KeptVersionReadable
PROPERTIES
    KeepsVersions
    GCComplete
    ImplementsVersionStore
CHECK_DEADLOCK FALSE
