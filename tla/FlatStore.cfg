SPECIFICATION FlatSpec
CONSTANTS
    cards = cards
    settings = settings
    Key = {cards, settings}
    Caller = {cards, quit}
    Legacy <- OldCards
    MaxSets = 3
    MaxChained = 3
    MaxFails = 2
    MaxCrashes = 1
    MaxDamage = 1
INVARIANT FlushMeansDown
INVARIANT NothingForgotten
INVARIANT ToldTrue
PROPERTY DamagedIsKept
CHECK_DEADLOCK FALSE
