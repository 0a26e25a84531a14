SPECIFICATION FairKeySpec
CONSTANTS
    LinkEntry = {e1, e2, e3, e4}
    DecideWorkers = 3
    LinkFails = TRUE
    FetchFails = TRUE
    NoEntry = NoEntry
INVARIANTS
    NobodyStranded
    LinkTargetsInPlace
PROPERTIES
    EverySettles
