\* Linking and the data-channel pool: races of endpoints, joins, losses,
\* rejoins, ramps and deadlines.
SPECIFICATION FairSpec
CONSTANTS
    Endpoint = {1, 2}
    Reachable = {1, 2}
    Stray = {1}
    MaxPairAttempts = 3
    MaxChannels = 2
    Start = 1
    MinChannels = 1
    Ceiling = 2
    Pinned = FALSE
    IdSpace = 3
    None = None
    MaxRamps = 1
    MaxLosses = 1
    MaxTimeouts = 1
INVARIANTS
    OneSession
    FreshKeys
    NoLeak
PROPERTIES
    Links
    Ends
CHECK_DEADLOCK FALSE
