SPECIFICATION Spec
CONSTANTS
    Values <- MCValues
    MaxRows = 8
    Window = 3
    MinChange = 4
    Patterns <- MCPatterns
INVARIANT
    StaysInRange
