SPECIFICATION Spec
CONSTANTS
    Owner = {p1, p2}
    Table = {1}
    Key = {k1, k2}
    Val = {v, w}
    Slots = 2
    Statements = {"insert", "delete"}
    InitIndexed = {1}
    DeletesOwnInserts = TRUE
    MaxWrites = 3
PROPERTIES UndoKeepsCommitted
