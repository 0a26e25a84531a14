SPECIFICATION FairSpec
CONSTANTS
    Worker = {w1, w2}
    None = None
    File <- MCFile
    NumGroups = 2
    Need <- MCNeed
    Size <- MCSize
    Secondary = {"s"}
    Capacity = 2
    ChannelsPinned = FALSE
    MaxRequeues = 1
    MaxLosses = 1
    MaxRetires = 1
INVARIANTS
    EachItemOnce
    NoLostWakeup
    StarvingTakesBoth
PROPERTIES
    ImplementsPool
    Terminates
