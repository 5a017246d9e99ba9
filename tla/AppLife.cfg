SPECIFICATION LifeSpec
CONSTANTS
    app = app
    c1 = c1
    c2 = c2
    c3 = c3
    ghost = ghost
    stranger = stranger
    empty = empty
    none = none
    App = app
    Proc <- Processes
    Parties <- Casts
    Mortal = {c1, c3}
    Ghost = ghost
    Stranger = stranger
    Empty = empty
    None = none
    MaxCrashes = 1
    Edit = {e1}
INVARIANT OneWriter
INVARIANT SignsAreTrue
PROPERTY LandsUnderLock
PROPERTY NeverLockedForGood
PROPERTY QuitEnds
CHECK_DEADLOCK FALSE
