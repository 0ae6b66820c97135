SPECIFICATION BOSpec
CONSTANTS
    Points <- MCPoints
    Origin = 0
    NearPairs <- MCNearPairs
    Cap = 2
    MaxProbe = 1
    MaxScore = 1
    NaN = NaN
    StoreScores = {}
    MaxCount = 0
    Budget = 4
    NoPoint = NoPoint
INVARIANTS
    BOTypeOK
    NothingLost
    AnswersAreSimulated
    BestSaved
