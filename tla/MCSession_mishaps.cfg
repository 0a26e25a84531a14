SPECIFICATION FairSpec
CONSTANTS
    File <- MCTwo
    Group <- MCTwoGroup
    Link <- MCLink
    Invalid = {}
    Channel = {c1}
    MaxRetries = 1
    SourceFaults = {"E6003", "E6004"}
    DestFaults = {"E8001", "E7003", "E7009"}
    Mishaps = {"signal", "reset", "cut"}
    Patient = FALSE
    None = None
    a = a
    b = b
    d = d
    e = e
    c1 = c1
    c2 = c2
INVARIANTS
    SuccessIsComplete
PROPERTIES
    BothEnd
