CONSTANTS
    None = None
    b1 = b1
    b2 = b2
    l1 = l1
    l2 = l2
    m1 = m1
    Boot = Boot
    Tags = {b1, b2}
    Names = {b1, b2, l1, l2}
    LocalOf <- MCLocalOf
    Prebuilt = {b1}
    Checked = {b1}
    Bundled = {b1}
    Models = {m1}
    PinOf <- MCPinOf
    Callers = {c1, c2}
    Posix = FALSE
    Rebuilds = FALSE
    MaxOps = 2
    MaxFaults = 1
    MaxCrashes = 1
SPECIFICATION FairSpec
CHECK_DEADLOCK FALSE
INVARIANTS StoreTrue
PROPERTIES BuildsAppearWhole  WorkEnds
