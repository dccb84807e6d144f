SPECIFICATION FairSpec
CONSTANTS
    Tx = {t1, t2}
    Cells = {c1, c2}
    None = None
    NoValue = NoValue
    MaxGenerations = 32
    Keys = {1, 2}
    Loaded = Loaded
    MaxOps = 2
    MaxVacuums = 0
    Contended = TRUE
    Rewrites = FALSE
    Removes = FALSE
INVARIANTS
    WaitForAcyclic
    WritesStayOwned
PROPERTIES
    PublishedWhole
    CallsEnd
CHECK_DEADLOCK FALSE
