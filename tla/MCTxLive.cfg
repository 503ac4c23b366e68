SPECIFICATION FairSpec
CONSTANTS
    Owner = {p1, p2}
    Table = {1, 2}
    Key = {k1}
    Val = {v}
    Slots = 1
    Statements = {"insert", "select"}
    InitIndexed = {}
    DeletesOwnInserts = TRUE
    MaxWrites = 1
INVARIANTS
    LockExclusion
    NoLostWakeup
    LedgerAgrees
PROPERTIES
    HoldsAreKept
    StatementsEnd
