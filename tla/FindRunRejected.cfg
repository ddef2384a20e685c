CONSTANTS
    Slots = {s1}
    MaxContents = 0
    Faults = {}
    OtherTabs = FALSE
SPECIFICATION Spec
INVARIANT RunIsAccepted
CHECK_DEADLOCK FALSE
