SPECIFICATION Specification
CONSTANTS
    None = None
    Models = {"dense", "windowed", "hybrid", "sparse"}
    Cards = {0, 1, 2}
    Spec <- MCSpec
    TotalOf <- MCTotal
    Capability <- MCCapability
    Config <- MCConfig
    Requests <- MCRequests
    Learns = TRUE
    ForeignSizes = {0, 60}
    Growths = {0, 10}
    MaxAsks = 3
    MaxMoves = 2
    CtxLadder <- MCLadder
    CellAlign = 4
    DefaultUbatch = 2
CHECK_DEADLOCK FALSE
INVARIANTS PlanSound EvictionsJustified BestAnswer
