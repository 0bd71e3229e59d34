SPECIFICATION SmallSpec
CONSTANTS
    a = a
    b = b
    Order <- TwoCards
    HasGh = FALSE
    MaxEdits = 1
    MaxFaults = 1
    Prs = {g1, g2}
    NoPr = NoPr
    Sweepers = {cron}
    CiChanges = 1
    CiFaults = 1
    Repos = {r1, r2}
    Pollers = {p1, p2}
    Names = {1, 2, 3}
    Priorities = {10, 100}
CHECK_DEADLOCK FALSE
INVARIANTS
    CriticalComesFirst
PROPERTIES
    NeverWronglyClosed
    MergedIsClosed
    VerdictCatchesUp
