\* One data channel at a time: errors of the source and of the destination,
\* and connections that close, end or are reset.
SPECIFICATION FairSpec
CONSTANTS
    a = a
    b = b
    File = {a, b}
    Chunks <- MCChunks
    MaxRetries = 1
    SourceFaults = {"E6001", "E6003", "E6004", "E8003"}
    DestFaults = {"E7001", "E7003", "E7004", "E7005", "E8001", "E8003"}
    Breaks = {"close", "fin", "reset", "stall"}
    MaxBreaks = 1
    None = None
INVARIANTS
    InSync
    PublishedWhole
    FailsForCause
PROPERTIES
    Ends
CHECK_DEADLOCK FALSE
