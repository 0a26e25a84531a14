SPECIFICATION FairSpec
CONSTANTS
    None = None
    File = {"a", "b"}
    Group = {"g", "h"}
    Members <- MCMembers
    Servicer = {s1, s2}
    Request = {r1, r2, r3}
INVARIANTS
    DoneIsSound
    DoneNotMissed
PROPERTIES
    NoHang
