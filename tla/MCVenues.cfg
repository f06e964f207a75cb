\* The breaker's times are in the order of the configured policy: warn_persist_ms <
\* blacklist_persist_ms <= recovery_ms < blacklist_ttl_ms.
CONSTANTS
    WarnPersistMs = 1
    BlacklistPersistMs = 2
    RecoveryMs = 2
    BlacklistTtlMs = 3
    MaxTime = 12
    VenueNames <- MCVenueNames
    c1 = c1
    c2 = c2
    Callers = {c1, c2}
    Supported = TRUE
    None = None
    Err = Err
    MaxEdits = 1
    MaxQty = 2
    MaxOrders = 2
SPECIFICATION MCSpec
SYMMETRY CallerSymmetry
INVARIANTS
    QuarantineServed
    FinalIsFinal
    AnswersTrue
    OneClient
PROPERTIES
    NoHastyBlacklist
    FollowsVenueStates
