CONSTANTS
    Ids = {i1, i2}
    Uuids = {i1}
    Markets = {m1, m2}
    States = {"OK", "WARN"}
    ReadSize = 2
    MaxStatuses = 3
    MaxCrashes = 1
    Trades <- MCTrades
    Pools <- MCPools
    MatchWindow = 2
    MaxSorted = 5
SPECIFICATION MCSpec
INVARIANTS
    FillsCountedOnce
    HistoryJoins
    MatchedInOrder
    CostsAddUp
\* A report ends once the disposals are listed.
CHECK_DEADLOCK FALSE
