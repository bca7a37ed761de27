SPECIFICATION Spec
CONSTANTS
    Cards = {c1}
    Spaces = {s1}
    Downloads = {d1}
    Finals = {n1}
    Files = {f1, f2}
    NoFile = NoFile
    NoKey = NoKey
    InTheClear = InTheClear
    OneAtATime = TRUE
    MaxCrashes = 0
    Allowed = {"capture", "delete"}
INVARIANT NothingInTheClear
CHECK_DEADLOCK FALSE
