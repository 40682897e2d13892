SPECIFICATION Spec
CONSTANTS
    e1 = e1
    e2 = e2
    e3 = e3
    e4 = e4
    k1 = k1
    k2 = k2
    w1 = w1
    w2 = w2
    w3 = w3
    Entries = {e1, e2, e3, e4}
    Workers = {w1, w2, w3}
    Keys = {k1, k2}
    Existing = {k2}
    KeyOf <- MCKeyOf
    Directory = Directory
    NoEntry = NoEntry
INVARIANTS
    CommitComplete
    UploadedOnce
    ErrorsExplained
    ClosedAfterWork
PROPERTY
    Terminates
