CONSTANTS
    okx = okx
    Venues = {okx}
    MaxDrawdownPct = 3
    SafeModeDrawdownPct = 5
    MaxErrorRatePct = 50
    MinCoreVenuesForSafeMode = 1
    ADLRiskPausePct = 40
    LiqClusterPauseCount = 3
    VenueDelevSafeModeCount = 1
    Window = 1
    AutoResolve <- MCAutoResolve
    StartEquity = 200
    PnLs <- MCPnLs
    Ttls = {1}
    ADLReadings = {50}
    ClusterReadings = {3}
    MaxTime = 2
    MaxEvents = 1
    MaxDelevEvents = 1
SPECIFICATION Spec
INVARIANTS
    NotBelowRisk
    PlaybooksCarriedOut
PROPERTY ImplementsModeMachine
