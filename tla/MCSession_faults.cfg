SPECIFICATION Spec
CONSTANTS
    File <- MCFile
    Group <- MCGroup
    Link <- MCLink
    Invalid = {}
    Channel <- MCChannel
    MaxRetries = 1
    SourceFaults = {"E6003"}
    DestFaults = {"E8001", "E7002", "E7003", "E7009"}
    Mishaps = {}
    Patient = FALSE
    None = None
    a = a
    b = b
    d = d
    e = e
    c1 = c1
    c2 = c2
INVARIANTS
    Honest
    DisagreementOnBoth
SYMMETRY MCSymmetry
