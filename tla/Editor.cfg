CONSTANTS
    Slots = {s1, s2}
    MaxContents = 2
    Faults = {"bad", "thrown", "lost"}
    OtherTabs = TRUE
SPECIFICATION FairSpec
INVARIANTS TypeOK SavingIsASave CleanIsStoredUnlessCrossed
PROPERTIES RunEnds
CHECK_DEADLOCK FALSE
