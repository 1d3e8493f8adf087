SPECIFICATION FairSpec
CONSTANTS
    a = a
    b = b
    c = c
    d = d
    card = card
    Models = {b, c}
    Cards = {card, spare}
    SizeOf <- Sizes
    Room = 2
    ModelTier <- Tiers
    Pinned = {}
    Requests = {r1}
    Loaders = {l1}
    Modes = {"force"}
    Grants = {}
    CardOf <- OnTheCard
    OwnersOf <- ForUtility
    GrantTier <- AtAgent
    Forced = {}
    Unloaders = {}
    ClientsOf <- Anyone
    Sweeper = {sweep}
    Restorer = {}
    Reconciler = {}
    Rebalancer = {mover}
    Oom = TRUE
    Crashes = TRUE
    None = None
PROPERTIES GatePassedOn MoveEvictsNobody MoveLeavesNothingDown
