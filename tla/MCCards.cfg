SPECIFICATION SmallSpec
CONSTANTS
    c1 = c1
    c2 = c2
    c3 = c3
    ann = ann
    ben = ben
    cat = cat
    Ids = {c1}
    NoCard = NoCard
    NoUndo = NoUndo
    NoBoard = NoBoard
    Statuses = {"deferred"}
    EdgeKinds <- NoEdges
    HelpIds = {c1}
    Surfaces = {"store", "web"}
    Shared = {c1, c2, c3}
    People = {ann, ben, cat}
    Callers = {ann}
    Nobody = Nobody
    Writers = {w1, w2}
    Initial <- TwoBeforeOne
    Waits <- Edges
    Calls <- CallsMade
    Mutes <- Muted
    Watches <- Watched
    MaxWrites = 4
    MaxFaults = 1
    Tasks = {1, 2}
    Agents = {a1, a2}
    Habits <- Facets
    Entries <- Deadlines
    Scores <- TwoScores
    Horizon = 2
    MaxIdle = 1
    StaleActiveIdle = 0
INVARIANTS
    RightPeopleHear
    
PROPERTIES
    NothingSlips
CHECK_DEADLOCK FALSE
