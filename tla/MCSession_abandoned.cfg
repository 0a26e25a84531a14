SPECIFICATION Spec
CONSTANTS
    File <- MCFile
    Group <- MCGroup
    Link <- MCLink
    Invalid = {}
    Channel <- MCChannel
    MaxRetries = 1
    SourceFaults = {}
    DestFaults = {"E7009"}
    Mishaps = {"signal"}
    Patient = TRUE
    None = None
    a = a
    b = b
    d = d
    e = e
    c1 = c1
    c2 = c2
INVARIANTS
    ZeroMeansComplete
