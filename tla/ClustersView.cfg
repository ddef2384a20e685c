CONSTANTS
    Ids = {c1, c2}
    None = None
    Slots = {s1, s2}
    MaxChanges = 1
    Offers = {"stop", "restart", "delete"}
    Faults = {"bad", "lost"}
SPECIFICATION FairSpec
INVARIANTS TypeOK KeepsRefreshing BusyIsWorking OwnChangesShown
PROPERTIES DraftKept SettledIsSeen
CHECK_DEADLOCK FALSE
