SPECIFICATION TerminalSpec
CONSTANTS
    o1 = o1
    c1 = c1
    c2 = c2
    Cards = {c1, c2}
    Owners = {o1}
    Unassigned = Unassigned
    MaxIdle = 1
    StaleActiveIdle = 0
    BacklogIdle = 0
    BlockedIdle = 0
    StatesOf <- MCStatesOf
    Daemons = {d1}
    Crons = {r1}
    Kinds = {"stale-active"}
    NoCron = NoCron
    MaxFaults = 1
    Senders = {e1}
    Servers = {s1}
    digest = digest
    comment = comment
    NoJob = NoJob
    NoRec = NoRec
PROPERTIES
    Settles
    Delivered
