CONSTANTS
    Segments = {"id", "tables"}
    User = user
    Polls = {}
    None = None
    Life = 2
    Skew = 1
    Ahead = 0
    MaxTime = 0
    Lossy = FALSE
SPECIFICATION Spec
INVARIANT EveryFetchIsServed
CHECK_DEADLOCK FALSE
