SPECIFICATION WebSpec
CONSTANTS
    Ids = {a, b}
    Verbs = {"create", "update", "chat", "delete", "restore", "priority"}
    Pollers = {t}
    Others = {x}
    MaxWrites = 3
    Peers = {p, q}
    Requests = {r1, r2}
    None = None
    MaxMessages = 2
    MaxOpens = 2
    MaxFaults = 1
INVARIANTS
    
    PaneInOrder
PROPERTIES
    
    MessagesKept
    ThreadCatchesUp
