SPECIFICATION Spec
CONSTANTS
    ScanSteps = {2, 3}
    MaxScans = 2
    MaxObjects = 2
    MaxOnce = 2
INVARIANTS
    LoopTypeOK
    IterationsExact
    UpdatesSeeFinalResults
    SumsAreExact
PROPERTY
    RunOnceReturns
