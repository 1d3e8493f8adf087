CONSTANTS
    g1 = g1  g2 = g2  b = b  m = m
    c1 = c1
    Groups = {g1, g2}
    FilesOf <- MCFilesOf
    Hashed = {b, m}
    Small = {b, m}
    Found <- MCFound
    Size = 2
    Slots = {1, 2}
    MaxAttempts = 2
    Callers = {c1}
    MayBeLoaded = {b, m}
    Posix = TRUE
    MayDrop = FALSE
    CutsFresh = FALSE
    MaxOps = 3
    MaxFaults = 1
    MaxCrashes = 1
    NoFile = NoFile
    Nobody = Nobody
SPECIFICATION FairSpec
CHECK_DEADLOCK FALSE
INVARIANTS RowsTrue SiblingsTakeTurns
PROPERTIES ImplementsLibrary BytesKept 
