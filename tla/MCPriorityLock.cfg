CONSTANTS
    Tasks = {t1, t2, t3}
    MaxQueue = 2
SPECIFICATION FairSpec
INVARIANTS GateInv
PROPERTIES ImplementsGate BestTierFirst FifoInTier ChatServed
