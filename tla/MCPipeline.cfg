SPECIFICATION PipelineSpec
CONSTANTS
    Sig = {s1}
    NoSig = NoSig
    Cap = 1
    Mint = {1, 2}
    PumpMint = {1}
    Wallet = {1, 2, 3, 4, 5, 6, 7, 8, 9, 10, 11, 12, 13}
    Sol <- MCAmount
    Qty <- MCAmount
    NoToken = NoToken
    Never = Never
    BuyCap = 500
    SellCap = 200
    TradeCap = 500
    TradeWindow = 600
    WinnerDelay = 300
    Snap30 = 1800
    Snap60 = 3600
    StaleAfter = 14400
    MaxLag = 0
    Burst <- MCBurst
    Depth = {0, 300, 4000, 60000}
    Query <- MCQuery
    Funding <- MCFunding
    Pause = {120, 400, 1000}
    MaxEvents = 3
    Idle = Idle
INVARIANTS
    PipelineTypeOK
    ActionableIsSupported
    HighVerdictIsEvidenced
    NoHighVerdictOnRoundTrips
    BestIsUnbeaten
    DeeperPoolNoWorse
CHECK_DEADLOCK FALSE
