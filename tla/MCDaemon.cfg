SPECIFICATION DaemonSpec
CONSTANTS
    Daemons = {d1}
    Passes = {p1}
    N = 2
    UserOf <- MCUserOf
    Registered = {1, 2}
    MaxAttempts = 2
    ReportEvery = 1
    MaxFaults = 1
    Starts = {n1, n2, n3}
    MaxKills = 3
    None = None
    Exited = Exited
CHECK_DEADLOCK FALSE
INVARIANTS
    NoResend
PROPERTIES
    SentOrGivenUp
    Resurfaced
    DaemonIsSeen
