SPECIFICATION Spec
CONSTANTS
    d1 = d1
    d2 = d2
    Device = {d1, d2}
    MaxMs = 3
    MaxCounter = 1
    MaxAhead = 1
    LegacyMs = {3}
    Late = {d2}
    MaxCalls <- FewCalls
INVARIANT DriftBounded
PROPERTY StampsAdvance
PROPERTY DiskFloorHolds
