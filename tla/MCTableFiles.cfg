SPECIFICATION FilesSpec
CONSTANTS
    Key = {k1, k2, k3, k4, k5}
    Val = {v, w}
    Pages = 3
    Slots = 2
    SlotSize = 2
    Waste = 1
    MaxFaults = 1
    MaxCrashes = 1
    t1 = t1
    t2 = t2
    plain = plain
    vector = vector
    wide = wide
    Table = {t1, t2}
    Index = {plain, vector, wide}
    TableOf <- Owners
    Vector = {vector}
    Unsuitable = {wide}
    DataRow = {r1, r2}
    MaxMishaps = 1
CHECK_DEADLOCK FALSE
SYMMETRY Symmetries
INVARIANTS
    FreeListExact
    OrderlyCloseOpens
    CrashUndoesOrIsRefused
    KeysMatchSlots
    HandlesAreSafe
    OpenIndexesAreExact
PROPERTIES
    RidStable
    ImplementsRecordFile
    DeletedAfterUnlisted
    ImplementsTableSpace
