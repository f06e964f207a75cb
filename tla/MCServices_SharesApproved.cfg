CONSTANTS
    okx = okx
    bybit = bybit
    binance = binance
    deribit = deribit
    btc = btc
    eth = eth
    Deposits = {1, 2}
    Fiat = {1}
    Venues = {"a", "b"}
    Allocation <- MCAllocation
    Weight <- MCWeight
    Amounts = {5, 10}
    MinDistribute = 4
    Dust = 2
    AutoConvert = TRUE
    PolicyConfigured = TRUE
    RedisFails = FALSE
    MaxAge = 1
    MaxRestarts = 1
    EnabledPairs <- MCEnabledPairs
    MinConsensusQuality = "MED"
    IntentTTL <- MCIntentTTL
    AllowWarnVenues = FALSE
    IgnoreFlaggedVenues = TRUE
    GlobalPolicy <- MCGlobalPolicy
    SymbolOverrides <- MCSymbolOverrides
    Tracked = btc
    Secondary = eth
    TrackedVenue = binance
    MinObs = 1
    Gap <- MCGap
    CascadeWindow = 2
    PriceMove = 20
    CascadePrices = 2
    DexFresh = 2
    DexMinEdge = 5
    DexPrices = {0}
    Updates <- MCUpdates
    BatchSize = 2
    BusFails = FALSE
    StartTime = 10
    MaxTime = 13
SPECIFICATION MCSpec
INVARIANT SharesApproved
