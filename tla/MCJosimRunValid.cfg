SPECIFICATION JosimSpec
CONSTANTS
    Nodes <- MCNodes
    Header <- MCHeader
    Headers <- MCHeaders
    Width = 3
    TableRows = 3
    PipeSize = 2
    MaxRuns = 3
INVARIANT
    ValidMeansComplete
