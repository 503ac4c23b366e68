SPECIFICATION LoadedSpec
CONSTANTS
    Setups <- SmallFile
    Risks = {"retry"}
CHECK_DEADLOCK FALSE
INVARIANT OverflowWithinGroup
