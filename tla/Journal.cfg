SPECIFICATION JournalSpec
CHECK_DEADLOCK FALSE
CONSTANTS
    Key = {k1, k2}
    Reload = FALSE
    CompactEvery = 4
    MaxFaults = 1
    Casts <- AllCasts
SYMMETRY Symmetry
INVARIANT EditsAreOwed
 
INVARIANT FollowersMissNothing
PROPERTY Certified
