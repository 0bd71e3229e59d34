SPECIFICATION StoreSpec
CONSTANTS
    c1 = c1
    c2 = c2
    l1 = l1
    Databases = {"given", "any"}
    Clients = {c1, c2}
    LockFiles = {l1}
    LockOf <- OneLock
    Ids = {i1, i2}
    Marks = {m1, m2, m3}
    NoCard = NoCard
    Nobody = Nobody
    NoGen = NoGen
    Unhashed = Unhashed
    NoOp = NoOp
    Paths = {"verb", "guarded"}
    Kinds = {"add", "edit", "drop"}
INVARIANTS AckedDurable
PROPERTIES SerialSpec
    
    RowsStay
CHECK_DEADLOCK FALSE
