SPECIFICATION Spec
CONSTANTS
    MaxAttempts = 2
    MaxStatusAttempts = 4
INVARIANTS
    BodyAlive
    NoLeakedBody
    CancellationIsCallers
PROPERTY
    DoReturns
