SPECIFICATION Spec
CONSTANTS
    k1 = k1
    k2 = k2
    k3 = k3
    top1 = top1
    top2 = top2
    dir = dir
    Keys = {k1, k2, k3}
    Hashes = {top1, top2, dir}
    Sub <- MCSub
    Leaf <- MCLeaf
    VersionIDs = {v1, v2}
    NoTree = NoTree
    MaxRuns = 3
PROPERTY
    UnknownFieldsKept
CHECK_DEADLOCK FALSE
