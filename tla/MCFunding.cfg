CONSTANTS
    Venues = {"a", "b"}
    Rates <- MCRates
    Stage = "FULL"
    Overrides = {"OBSERVE"}
    Cost = 1
    MinYieldHigh = 1
    MinYieldMed = 2
    MinDifferential = 3
    MaxNotional = 1
    Reduced = 1
    Cooldown = 2
    Period = 2
    NearWindow = 2
    RedisFails = FALSE
    MaxEntries = 1
    MaxIntents = 1
    MaxEvents = 2
    MaxRestarts = 1
SPECIFICATION FairSpec
INVARIANTS ExitUndoesEntry
PROPERTY InvertedCarryLeaves
