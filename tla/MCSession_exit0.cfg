SPECIFICATION Spec
CONSTANTS
    File <- MCFile
    Group <- MCGroup
    Link = {}
    Invalid = {}
    Channel <- MCChannel
    MaxRetries = 1
    SourceFaults = {"E6003"}
    DestFaults = {}
    Mishaps = {}
    Patient = TRUE
    None = None
    a = a
    b = b
    d = d
    e = e
    c1 = c1
    c2 = c2
INVARIANTS
    ZeroMeansDelivered
