SPECIFICATION Spec
CONSTANTS
    None = None
    Due = Due
    MaxStamp = 4
    MaxDay = 1
    MaxCrashes = 1
    MaxFaults = 2
INVARIANT NothingLost
INVARIANT LaunchKeepsTheDecision
PROPERTY KeptItsStay
CHECK_DEADLOCK FALSE
