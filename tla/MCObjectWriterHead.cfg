SPECIFICATION Spec
CONSTANTS
    MaxUnits = 13
    InitialPartSize = 1
    MaxPartSize = 3
    PartSizeStep = 1
    MaxParts = 4
    MaxAttempts = 3
INVARIANT
    SuccessfulCloseIsVisible
