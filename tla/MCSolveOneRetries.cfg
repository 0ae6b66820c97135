SPECIFICATION Spec
CONSTANTS
    Params <- MCParams
    NParams = 2
    RetryLimit = 1
    Costs <- MCCosts
    DataSizes = {3}
    MaxIter = 8
    MaxSlope = 3
    MaxFits = 1
INVARIANT
    RetriesLimited
CHECK_DEADLOCK FALSE
