SPECIFICATION CacheSpec
CONSTANTS
    Points <- MCPoints
    Origin = 0
    NearPairs <- MCNearPairs
    Cap = 4
    MaxProbe = 2
    MaxScore = 4
    NaN = NaN
    StoreScores <- MCStoreScores
    MaxCount = 4
INVARIANTS
    CacheConsistent
    EntriesReachable
PROPERTY
    EntriesStay
