SPECIFICATION ResumeSpec
CONSTANTS
    FileId <- MCId
    PlanGroup <- MCGroup
    Path <- MCPath
    Content <- MCContent
    Manifest = {"m1", "m2"}
    Plan <- MCPlan
    Absent = Absent
    Bad = Bad
    Faults = {"kill", "fatal", "item", "short", "remove"}
    MaxFaults = 3
    MaxChanges = 2
INVARIANTS
    SkipSound
    NeverPartial
PROPERTIES
    Converges
