\* Not a run of the project: the header is torn by one run and taken for
\* granted by another.
SPECIFICATION CacheSpec
CONSTANTS
    p = p
    q = q
    Process = {p, q}
    Worker = {1, 2}
    Owner <- MCOwner
    Algo = {"md5", "sha256"}
    Inode = {"f"}
    Block = {1, 2}
    Content <- MCContent
    Magic = Magic
    Torn = Torn
    NoJob = NoJob
    MaxWrites = 1
    MaxRuns = 2
    MaxFaults = 1
INVARIANTS
    HeadedAlways
CHECK_DEADLOCK FALSE
