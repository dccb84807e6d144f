SPECIFICATION Spec
CONSTANTS
    Tx = {t1, t2, t3}
    Cells = {c1, c2, c3, c4}
    None = None
    NoValue = NoValue
    MaxGenerations = 32
    Keys = {1}
    Loaded = Loaded
    MaxOps = 1
    MaxVacuums = 0
    Contended = TRUE
    Rewrites = FALSE
    Removes = FALSE
SYMMETRY Symmetry
INVARIANTS
    SnapshotIsDurablePrefix
CHECK_DEADLOCK FALSE
