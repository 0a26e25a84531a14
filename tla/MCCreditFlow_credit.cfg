SPECIFICATION CreditSpec
CONSTANTS
    Decider = {d1, d2}
    MaxGroups = 3
    GroupCredit = 2
    Needs <- MCNeeds
    Capacity = 2
    Free = 5
    Margin = 1
    FallbackSizes = {1}
    MaxFallbacks = 1
    MaxFailures = 1
INVARIANTS
    OutstandingWithinCredit
    PoolDecidesAll
    ClaimsFitDisk
PROPERTIES
    Ends
