SPECIFICATION CircleSpec
CONSTANTS
    d1 = d1
    d2 = d2
    p1 = p1
    p2 = p2
    NoPub = none
    Device = {d1, d2}
    Pub = {p1, p2}
    PageRoom = 2
    MaxPages = 1
    MaxAnswers = 2
    MaxStamp = 3
    MaxFrame = 2
    MaxEpoch = 2
    Casts <- MCCasts
INVARIANT ChainsHold
INVARIANT FoldsAsOne
INVARIANT Forgotten
PROPERTY CaughtUp
CHECK_DEADLOCK FALSE
