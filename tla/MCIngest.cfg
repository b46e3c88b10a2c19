SPECIFICATION FairSpec
CONSTANTS
    p1 = p1
    p2 = p2
    Programs <- TwoPrograms
    Touches <- FourTouches
    MaxTx = 4
    Swaps = {1, 2, 4}
    Limit = 2
    Cap = 4
    MaxBehind = 1
    MaxRestarts = 1
    Reliable = {p2}
INVARIANTS
    TypeOK
    NothingBehindCursorLost
    CountedOnce
PROPERTIES
    PolledInChainOrder
    EverySwapCounted
