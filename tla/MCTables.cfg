SPECIFICATION TablesSpec
CONSTANTS
    Owner = {p1, p2}
    Table = {1}
    Key = {k1, k2, k3}
    Val = {v, w}
    Slots = 3
    Statements = {"insert", "delete"}
    InitIndexed = {1}
    DeletesOwnInserts = FALSE
    MaxWrites = 2
    Indexes = 2
    MaxFaults = 1
    Setups <- SequentialSetups
    Risks = {"other"}
CHECK_DEADLOCK FALSE
SYMMETRY Symmetries
INVARIANTS
    RaisedCallKeepsRows
    IndexesMirrorRows
    IndexMirrorsRows
    ReadsAgree
    SequentialReopens
PROPERTIES
    WholeCallsAgree
    ImplementsSequentialContract
