CONSTANTS
    None = None
    Fleets <- MCFleets
    Tops <- MCTops
    StaleMs = 1
    MaxStream = 1
    MaxFaulty = 1
    BaseTrust <- MCBaseTrust
    CoreVenues = {"binance", "okx", "bybit", "deribit", "htx"}
    MinCoreQuorum = 1
    HighQuorum = 2
    OutlierBpsWarn = 25
    OutlierBpsBlacklist = 500
    StalePauseMs = 0
    BatchSize = 1
SPECIFICATION FairSpec
PROPERTIES
    BlacklistedHaveNoSay
    OneConnection
    LostFeedsSilence
