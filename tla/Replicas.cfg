SPECIFICATION Spec
CHECK_DEADLOCK FALSE
CONSTANTS
    t1 = t1
    N = 2
    Tag = {t1}
    Legacy <- MCLegacy
    MaxStamp = 4
    MaxEdits = 2
    MaxSent = 2
    MaxParse = 1
INVARIANT Converged
INVARIANT OneFact
INVARIANT ExchangeSettles
PROPERTY NothingGoesBack
