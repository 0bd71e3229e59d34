SPECIFICATION Spec
SYMMETRY Alike
CONSTANTS
    d1 = d1
    d2 = d2
    c1 = c1
    p1 = p1
    p2 = p2
    s1 = s1
    s2 = s2
    r1 = r1
    Backends = {"sqlite", "yaml"}
    Dispatchers = {p1, p2}
    Sessions = {s1}
    Readers = {r1}
    Events = {d1, d2, c1}
    KindOf <- MCKindOf
    Digests = {"digest"}
    MaxId = 2
    Cap = 1
    MaxFaults = 1
    NoJob = NoJob
    NoRec = NoRec
INVARIANTS NothingLost OnePendingDigest PushedOnce
