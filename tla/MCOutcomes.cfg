SPECIFICATION FairSpec
CONSTANTS
    Decision <- EitherOrder
    Checkpoints = {1}
    Lookback = 2
    BucketTicks = 2
    Limit = 1
    Price = {5, 10}
    Depth = {0, 40}
    MinTrade = 1
    MaxImpactPct = 5
    RugDepth = 1
    HasVault = TRUE
    NoRow = NoRow
    MaxTime = 3
    MaxDecisions = 2
    MaxSwaps = 2
    MaxStops = 1
INVARIANTS
    TypeOK
    OneSignalPerBucket
    NeverEarly
    NoLookahead
    MaxCoversPrice
    LabelsNeedVault
PROPERTIES
    DueIsSettled
CHECK_DEADLOCK FALSE
