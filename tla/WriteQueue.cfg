SPECIFICATION FairSpec
CONSTANTS
    Key = {k1, k2}
    Cap = 2
    MaxTasks = 4
PROPERTY KeepsItsLanes
PROPERTY Answered
