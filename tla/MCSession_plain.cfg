SPECIFICATION FairSpec
CONSTANTS
    File <- MCPlainFile
    Group <- MCPlainGroup
    Link <- MCLink
    Invalid = {e}
    Channel <- MCChannel
    MaxRetries = 1
    SourceFaults = {"E6003", "E6004"}
    DestFaults = {"E8001", "E7009"}
    Mishaps = {}
    Patient = TRUE
    None = None
    a = a
    b = b
    d = d
    e = e
    c1 = c1
    c2 = c2
INVARIANTS
    AckMeansDelivered
    FatalForCause
PROPERTIES
    CleanEnd
