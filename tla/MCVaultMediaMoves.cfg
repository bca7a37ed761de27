SPECIFICATION Spec
CONSTANTS
    Cards = {c1}
    Spaces = {s1, s2}
    Downloads = {d1, d2}
    Finals = {n1}
    Files = {f1, f2, f3}
    NoFile = NoFile
    NoKey = NoKey
    InTheClear = InTheClear
    OneAtATime = FALSE
    MaxCrashes = 0
    Allowed = {"capture", "retry", "dispatchFails", "move"}
SYMMETRY Symmetry
INVARIANT NoCardLosesItsFile
