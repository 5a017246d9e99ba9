SPECIFICATION ShelfSpec
CONSTANTS
    Book = {b1, b2}
    NoIndex = NoIndex
    MaxChanges = 3
    MaxFails = 3
    MaxCrashes = 2
SYMMETRY Symmetry
CHECK_DEADLOCK FALSE
INVARIANT ShelfIsTrue
PROPERTY LoadIsTrue
