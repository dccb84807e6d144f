SPECIFICATION Spec
CONSTANTS
    Tx = {t1, t2, t3}
    Cells = {c1, c2, c3, c4}
    None = None
    NoValue = NoValue
    MaxGenerations = 32
    Keys = {1, 2}
    Loaded = Loaded
    MaxOps = 1
    MaxVacuums = 0
    Contended = FALSE
    Rewrites = FALSE
    Removes = FALSE
SYMMETRY Symmetry
INVARIANTS
    SnapshotIsDurablePrefix
    CommittedWritesAreLogged
CHECK_DEADLOCK FALSE
