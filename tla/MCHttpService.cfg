SPECIFICATION HttpSpec
CONSTANTS
    c1 = c1
    c2 = c2
    Client <- MCClient
    MaxRetained = 2
    MaxErrors = 1
    BatchSize = 2
    LastId = 2
    Columns <- MCColumns
    Workload <- MCWorkload
CHECK_DEADLOCK FALSE
INVARIANTS OneLiveJob ReportsAddUp CsvReportsEveryRow EncodingIsExact HeaderIsMatchedOneToOne
PROPERTIES LoadsStayOutOfTransactions EveryJobEnds
