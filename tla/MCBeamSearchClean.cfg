SPECIFICATION Spec
CONSTANTS
    Word = 4096
    DefaultShell = 1
    Landings <- MCLandings
    Explored <- MCExplored
    MinPasses = 2
    NBest = 3
    Spare = 1
    Derive = 1
    MaxLevel = 2
    Outlier = 4
    WallPoints = 1
    PlanInputs <- MCPlanInputs
    MaxShell = 1
INVARIANT
    PrefersClean
CHECK_DEADLOCK FALSE
