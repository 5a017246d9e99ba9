SPECIFICATION FairSpec
CONSTANTS
    N = 2
    Casts <- AllCasts
INVARIANT Together
PROPERTY Settles
