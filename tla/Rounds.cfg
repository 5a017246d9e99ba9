SPECIFICATION RoundsSpec
CONSTANTS
    Debounce = 1
    Retry = 1
    Every = 2
    Id = {s}
    Session = s
    Silence = 1
    Length = 2
    Room = 1
    MaxInFlight = 1
INVARIANT OnTime
PROPERTY WhenNext
PROPERTY EndsAreTrue
PROPERTY SessionsComeAndGo
PROPERTY Carried
