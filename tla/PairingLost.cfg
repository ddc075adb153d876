CONSTANTS
    Version = 2
    MaxFaults = 1
SPECIFICATION Spec
INVARIANTS
    SameStream
