SPECIFICATION ChaseSpec
CONSTANTS
    o1 = o1
    c1 = c1
    c2 = c2
    k1 = k1
    k2 = k2
    t1 = t1
    t2 = t2
    Cards = {c1, c2}
    Owners = {o1}
    Unassigned = Unassigned
    MaxIdle = 1
    StaleActiveIdle = 0
    BacklogIdle = 0
    BlockedIdle = 0
    Allowed = {o1}
    High = {c1}
    Registered = {o1}
    EscalateAfter = 2
    StatesOf <- MCStatesOf
    MaxFaults = 1
    PushFaults = 1
    Cooldown = 3
    Timeout = 1
    NoUrl = NoUrl
    NoPost = NoPost
INVARIANTS
    OncePerStreak
PROPERTIES
    DigestIsNews
    EscalationArrives
    PushesKeepPace
