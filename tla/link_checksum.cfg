SPECIFICATION Spec
CONSTANTS
    Base = 6
    Seed = 4
    MaxBody = 2
INVARIANTS
    IntactIsValid
    OneByteDetected
