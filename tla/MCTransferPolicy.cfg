CONSTANTS
    treasury = treasury
    alice = alice
    bob = bob
    EU = EU
    US = US
    NoRegion = NoRegion
    Ids = {1}
    Names <- MCNames
    Amounts = {1, 2}
    Routes <- MCRoutes
    VenueRegions <- MCVenueRegions
    MaxPerTransferUSD = 3
    MaxDailyUSD = 3
    MaxTransfersPerDay = 2
    DualApprovalThresholdUSD = 2
    ManualApprovalRequired = FALSE
    ApprovalExpiry = 1
    Day = 1
    MaxTime = 3
    MaxGranted = 3
SPECIFICATION Spec
INVARIANTS
    SignedOff
    AutoApprovalsWithinLimits
PROPERTY SignaturesAreFresh
