SPECIFICATION Spec
CONSTANTS
    Cards = {c1}
    Spaces = {s1}
    Downloads = {d1}
    Finals = {n1, n2}
    Files = {f1, f2, f3, f4}
    NoFile = NoFile
    NoKey = NoKey
    InTheClear = InTheClear
    OneAtATime = TRUE
    MaxCrashes = 1
    Allowed = {"retry", "lock", "delete"}
SYMMETRY Symmetry
INVARIANTS TypeOK MediaOpens QueuedIsQueued
CHECK_DEADLOCK FALSE
