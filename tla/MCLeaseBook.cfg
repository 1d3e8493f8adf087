CONSTANTS
    Ids = {1, 2, 3, 4}
    Devices = {1, 2}
    DevicesOf <- Cards
    TierOf <- Tiers
    TtlOf <- Ttls
    Askable = {1, 3}
    Owned = {3, 4}
    Own = {4}
    CardSets <- MaybeOne
    MaxClock = 5
    PersistInterval = 2
    Window = 1
    CallbackTimeout = 1
    MaxHiccups = 1
SPECIFICATION Spec
INVARIANTS CardsApart Mirrored AnswersMeetTheirWindow
PROPERTIES HolderKeepsItsCard NeverTakenOver
