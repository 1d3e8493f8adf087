CONSTANTS
    Modes = {m1}
    Placers = {p}
    Sweepers = {q}
    Testers = {t}
    Clients = {c}
    Unloaders = {u}
    Savers = {s}
    Pinners = {pin}
    Scanners = {x}
    Reaper = reap
    Reconciler = rec
    Levels = 1
    MaxFails = 1
    MaxCancels = 1
    MaxCalls = 2
    None = None
SPECIFICATION FairSpec
CHECK_DEADLOCK FALSE
INVARIANTS MeasuresTrue LeftAsFound
PROPERTIES PinnedComesBack
