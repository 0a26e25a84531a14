\* Nothing fails but one write to the receiver's disk.
SPECIFICATION Spec
CONSTANTS
    a = a
    b = b
    File = {a, b}
    Chunks <- MCChunks
    MaxRetries = 1
    SourceFaults = {}
    DestFaults = {"E7004"}
    Breaks = {}
    MaxBreaks = 1
    None = None
INVARIANTS
    SessionSurvives
CHECK_DEADLOCK FALSE
