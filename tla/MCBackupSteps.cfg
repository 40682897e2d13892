SPECIFICATION StepSpec
CONSTANTS
    Keys = {1, 2, 3, 4, 5}
    PageSize = 2
    MaxAttempts = 3
    MaxChanges = 2
    MaxListed = 6
    TailLen = 4
    CountMod = 2
    MaxLen = 2
    Paths <- MCPaths
    FileKeys = {1, 2}
    MaxEntries = 4
    MaxDepth = 3
    IDs = {1, 2, 3}
    Times = {1, 2, 3}
    Tolerance = 1
    MaxBackups = 4
INVARIANTS
    ListingFaithful
    ZipListingExact
    KeyedContent
    TreeExact
PROPERTIES
    ListingEnds
    VersionsOrdered
