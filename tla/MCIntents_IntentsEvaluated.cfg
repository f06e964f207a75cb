CONSTANTS
    arb = arb
    carry = carry
    exit = exit
    okx = okx
    bybit = bybit
    Strategies <- MCStrategies
    Venues <- MCVenues
    StrategyCap <- MCStrategyCap
    VenueCap <- MCVenueCap
    Intents <- MCIntents
    MinQuality <- MCMinQuality
    MaxSingleIntentPct = 0
    KellyPct = 60
    InitialCapitalUSD = 25
    Modes = {"RUNNING", "PAUSED"}
    Qualities = {0, 1}
    DynPcts = {50, 150}
    OiPcts = {25, 150}
    FillPcts = {50, 100, 120}
    PnLs <- MCPnLs
    CloseUSD = {4}
    MaxApproved = 3
    MaxClosed = 400
    FillPnLs <- MCFillPnLs
    MaxFills = 10
    Depths = {40, 90, 150}
    StaleTicks = 2
    MaxLen = 2
    BatchSize = 1
    MaxIntents = 1
    RedisFails = FALSE
SPECIFICATION LoopFairSpec
PROPERTY IntentsEvaluated
