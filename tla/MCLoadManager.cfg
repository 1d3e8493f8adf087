SPECIFICATION Spec
CONSTANTS
    a = a
    b = b
    c = c
    d = d
    card = card
    Models = {a, b, c, d}
    Cards = {card, spare}
    SizeOf <- Sizes
    Room = 3
    ModelTier <- Tiers
    Pinned = {a}
    Requests = {r1}
    Loaders = {}
    Modes = {}
    Grants = {g}
    CardOf <- OnTheCard
    OwnersOf <- ForUtility
    GrantTier <- AtAgent
    Forced = {}
    Unloaders = {u}
    ClientsOf <- Shared
    Sweeper = {}
    Restorer = {restore}
    Reconciler = {pins}
    Rebalancer = {}
    Oom = TRUE
    Crashes = FALSE
    None = None
SYMMETRY Alike
INVARIANTS CardsInOrder RestoreComing
PROPERTIES StreamsSafe
