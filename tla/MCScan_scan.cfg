\* Every source of four objects, walked, planned and grouped.
SPECIFICATION ScanSpec
CONSTANTS
    Node <- MCNode
    Nowhere = 5
    Sources <- MCSources
    OptionSets <- MCOptions
    NFC <- MCNFC
    NotUTF8 = {5}
    Esync = 4
    SysRules <- MCRules
    Size <- MCSize
    Linked = {1}
    MaxGroupEntries = 3
    MaxManifest = 7
    MaxVanished = 1
INVARIANTS
    WalkExact
    PlanExact
    GroupsExact
CHECK_DEADLOCK FALSE
