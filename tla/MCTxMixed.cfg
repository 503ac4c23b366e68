SPECIFICATION Spec
CONSTANTS
    Owner = {p1, p2}
    Table = {1}
    Key = {k1, k2}
    Val = {v}
    Slots = 2
    Statements = {"insert", "delete", "select", "load_rows", "load_atomic", "create_table", "create_index", "drop_table"}
    InitIndexed = {}
    DeletesOwnInserts = TRUE
    MaxWrites = 2
SYMMETRY Processors
INVARIANTS
    NoLockLeak
    SharedOnlyByReaders
    KeysUnique
PROPERTIES
    UndoKeepsCommitted
    ImplementsAtomicStore
