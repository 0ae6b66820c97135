SPECIFICATION Spec
CONSTANTS
    Values <- MCValues
    MaxRows = 7
    Window = 3
    MinChange = 4
    Patterns <- MCPatterns
INVARIANTS
    PulseTypeOK
    PulsesFound
    SearchAdvances
    MismatchesExact
PROPERTY
    SearchEnds
