\* One file that changes while it is hashed, and a cache that two
\* processes share.
SPECIFICATION CacheSpec
CONSTANTS
    p = p
    q = q
    Process = {p, q}
    Worker = {1, 2}
    Owner <- MCOwner
    Algo = {"md5", "sha256"}
    Inode = {"f"}
    Block = {1, 2}
    Content <- MCContent
    Magic = Magic
    Torn = Torn
    NoJob = NoJob
    MaxWrites = 1
    MaxRuns = 2
    MaxFaults = 1
INVARIANTS
    CacheTrue
    ResultTrue
    Headed
CHECK_DEADLOCK FALSE
