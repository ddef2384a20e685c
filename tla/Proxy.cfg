CONSTANTS
    Segments = {"id", "tables"}
    User = user
    Polls = {poll}
    None = None
    Life = 3
    Skew = 2
    Ahead = 1
    MaxTime = 2
    Lossy = TRUE
SPECIFICATION Spec
INVARIANTS TypeOK HandledAsMeant DeniedUnrefreshed SignedInUnlessRaced
CHECK_DEADLOCK FALSE
