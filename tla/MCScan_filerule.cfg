\* Not a run of the project: a directory with the name of a system file is
\* dropped and its contents are planned, which TLC finds to violate what the
\* comment of Build says.
SPECIFICATION ScanSpec
CONSTANTS
    Node <- MCNode
    Nowhere = 5
    Sources <- MCSources
    OptionSets <- MCOptions
    NFC <- MCNFC
    NotUTF8 = {5}
    Esync = 4
    SysRules <- MCRules
    Size <- MCSize
    Linked = {1}
    MaxGroupEntries = 3
    MaxManifest = 7
    MaxVanished = 1
INVARIANTS
    PlanDocumented
CHECK_DEADLOCK FALSE
