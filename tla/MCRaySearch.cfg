SPECIFICATION Spec
CONSTANTS
    Length = 322560
    NProbes = 6
INVARIANTS
    RayTypeOK
    Bracketed
    RayDivided
    ProbesBounded
    OneTransition
