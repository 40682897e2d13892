SPECIFICATION Spec
CONSTANTS
    MaxAttempts = 2
    MaxStatusAttempts = 4
INVARIANT
    BodyOrError
