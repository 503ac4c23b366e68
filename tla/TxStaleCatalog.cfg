SPECIFICATION Spec
CONSTANTS
    Owner = {p1, p2}
    Table = {1}
    Key = {k1}
    Val = {v}
    Slots = 1
    Statements = {"insert", "create_index"}
    InitIndexed = {}
    DeletesOwnInserts = TRUE
    MaxWrites = 1
INVARIANT IndexMirrorsRows
