SPECIFICATION Spec
CONSTANTS
    i1 = i1
    i2 = i2
    Ids = {i1, i2}
    NoCard = NoCard
    NoUndo = NoUndo
    NoBoard = NoBoard
    Statuses = {"deferred"}
    EdgeKinds <- EitherEnd
    HelpIds = {i1}
    Surfaces = {"store"}
PROPERTIES RestoreUndoes
