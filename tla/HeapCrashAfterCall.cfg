SPECIFICATION Spec
CONSTANTS
    Key = {k1}
    Val = {v}
    Pages = 1
    Slots = 2
    SlotSize = 2
    Waste = 1
    MaxFaults = 0
    MaxCrashes = 1
CHECK_DEADLOCK FALSE
INVARIANT FinishedCallsSurviveCrash
