SPECIFICATION Spec
CONSTANTS
    Source <- MCSource
    Deviations = 3
    Workload <- MCWorkload
    Block = 1
    Partitions = 2
    WidthOfB = 2
CHECK_DEADLOCK FALSE
INVARIANTS SpansAreExact ParsesWhatItDescribes AnswersWhatWasAsked ExplainShowsWhatRuns  HoldsWhatItReads
