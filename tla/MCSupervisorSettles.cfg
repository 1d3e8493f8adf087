CONSTANTS
    m1 = m1
    m2 = m2
    c1 = c1
    c2 = c2
    c3 = c3
    None = None
    Models <- OneModel
    Callers <- TwoCallers
    ClientsOf <- Shared
    Insts = {1, 2}
    Locks = {1, 2}
    Ports = {1}
    MaxRestarts = 2
    Survivors = TRUE
    Strangers = {1}
SPECIFICATION FairSpec
PROPERTIES AllSettles
