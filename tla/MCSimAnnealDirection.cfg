SPECIFICATION Spec
CONSTANTS
    p1 = p1
    p2 = p2
    Params <- MCParams
    Grid = 1
    Physical <- MCPhysical
    Scores = {0, 1}
    NaN = NaN
    Unknown = Unknown
    Rejected <- MCRejected
    Schedule <- MCSchedule
    RejMax = 1
    MaxReset = 2
    MaxTries = 2
    MaxDraws = 2
    MinRange = 0
    MaxRange = 2
    StartRange = 1
    NoParam = NoParam
PROPERTY
    AcceptDirection
