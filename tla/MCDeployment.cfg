SPECIFICATION Spec
CONSTANTS
    Procs = {p1, p2, p3, p4}
    Jobs = {j1}
    MaxOps = 2
    MaxFaults = 1
    MaxRestarts = 1
    MaxRetries = 1
    None = None
CHECK_DEADLOCK FALSE
INVARIANTS ServersApart
PROPERTIES  ServesAgain
