SPECIFICATION SmallSpec
CONSTANTS
    a = a
    b = b
    c = c
    ada = ada
    bob = bob
    Agents <- TwoAgents
    Nobody = Nobody
    Nothing = Nothing
    Ids = {a, b}
    MaxFaults = 1
    Pids = {s1, s2, s3}
    Terminals = {t1, t2}
    Watchers = {w1, w2}
    Recipients <- Listeners
    MaxChanges = 2
    MaxTouches = 2
    Migrators = {m1, m2}
    Texts = {n, x}
    MigrationFaults = 2
    Users = {u1, u2}
    Names = {a, b, c}
    Canonical <- Canon
    Writers = {v1, v2}
    Readers = {r}
    MaxRegistrations = 4
    Calls = {k1, k2}
    Hub = Hub
    MaxTokens = 2
    HubFaults = 1
    Snappers = {h1, h2}
    Sizes = {1, 3}
    Full = 3
    MaxStoreWrites = 2
    SnapshotFaults = 1
    Rebuilders = {i1, i2}
    Lanes = 1
    MaxRowChanges = 4
    IndexFaults = 1
    Shas = {s}
    Hooks = {g1, g2}
CHECK_DEADLOCK FALSE
INVARIANTS
    ServerIsTracked
    TextKept
    NamesStay
    
    LinkedOnce
PROPERTIES
    WokenOnce
    
    IndexGoesForward
