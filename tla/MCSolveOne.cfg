SPECIFICATION Spec
CONSTANTS
    Params <- MCParams
    NParams = 2
    RetryLimit = 1
    Costs <- MCCosts
    DataSizes = {0, 2, 3}
    MaxIter = 6
    MaxSlope = 3
    MaxFits = 2
INVARIANTS
    SolveTypeOK
    EndResIsLeast
PROPERTY
    KeepsContract
CHECK_DEADLOCK FALSE
