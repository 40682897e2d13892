SPECIFICATION Spec
CONSTANTS
    k1 = k1
    k2 = k2
    top = top
    dir = dir
    Keys = {k1, k2}
    Hashes = {top, dir}
    Sub <- MCSub
    Leaf <- MCLeaf
    VersionIDs = {v1, v2}
    NoTree = NoTree
    MaxRuns = 2
INVARIANT
    AnyVersionReconstructible
CHECK_DEADLOCK FALSE
