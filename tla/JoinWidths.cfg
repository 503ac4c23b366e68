SPECIFICATION Spec
CONSTANTS
    Source <- MCSource
    Deviations = 0
    Workload <- MCWorkload
    Block = 1
    Partitions = 2
    WidthOfB = 3
CHECK_DEADLOCK FALSE
INVARIANT AnswersWhatWasAsked
