\* Not a run of the project: a log that outlived its session.json is believed
\* by the session after the next.
SPECIFICATION ResumeSpec
CONSTANTS
    FileId <- MCId
    PlanGroup <- MCGroup
    Path <- MCPath
    Content <- MCContent
    Manifest = {"m1", "m2"}
    Plan <- MCExactPlan
    Absent = Absent
    Bad = Bad
    Faults = {"kill"}
    MaxFaults = 2
    MaxChanges = 1
INVARIANTS
    SkipCurrent
