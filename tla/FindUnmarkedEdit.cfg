CONSTANTS
    Slots = {s1}
    MaxContents = 2
    Faults = {}
    OtherTabs = FALSE
SPECIFICATION Spec
INVARIANT CleanIsStored
CHECK_DEADLOCK FALSE
