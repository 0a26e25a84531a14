\* Not a run of the project: a content that changes under its size and time is
\* skipped on the record of its predecessor.
SPECIFICATION ResumeSpec
CONSTANTS
    FileId <- MCId
    PlanGroup <- MCGroup
    Path <- MCPath
    Content <- MCContent
    Manifest = {"m1", "m2"}
    Plan <- MCPlan
    Absent = Absent
    Bad = Bad
    Faults = {"kill"}
    MaxFaults = 2
    MaxChanges = 1
INVARIANTS
    SkipCurrent
