CONSTANTS
    spot = spot
    Positions = {spot}
    MaxTrades = 2
    MaxNotional = 2
    MaxQueue = 2
    RedisFails = FALSE
    MaxRestarts = 1
    BatchSize = 2
    MaxApproved = 2
SPECIFICATION MCSpec
INVARIANT ExecutionStops
PROPERTIES OnlyOperatorRelaxes StopReaches HaltsClosed
