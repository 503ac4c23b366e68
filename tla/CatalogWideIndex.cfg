SPECIFICATION CatalogSpec
CONSTANTS
    t1 = t1
    t2 = t2
    plain = plain
    vector = vector
    wide = wide
    Table = {t1, t2}
    Index = {plain, vector, wide}
    TableOf <- Owners
    Vector = {vector}
    Unsuitable = {wide}
    DataRow = {r1, r2}
    MaxMishaps = 0
SYMMETRY DataRows
INVARIANT ListedIndexesOpen
