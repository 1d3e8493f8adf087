CONSTANTS
    m1 = m1
    m2 = m2
    c1 = c1
    c2 = c2
    c3 = c3
    None = None
    Models <- TwoModels
    Callers <- TwoCallers
    ClientsOf <- AlsoSecond
    Insts = {1, 2}
    Locks = {1, 2}
    Ports = {1, 2}
    MaxRestarts = 2
    Survivors = FALSE
    Strangers = {}
SPECIFICATION Spec
INVARIANTS ChildrenAccounted
PROPERTIES StoppedStaysDown
