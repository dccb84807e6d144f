\* Three transactions write one key, or two of them while the vacuum runs once or twice.
SPECIFICATION Spec
CONSTANTS
    Tx = {t1, t2, t3}
    Cells = {c1, c2, c3, c4}
    None = None
    NoValue = NoValue
    MaxGenerations = 32
    Keys = {1}
    Loaded = Loaded
    MaxOps = 1
    MaxVacuums = 2
    Contended = TRUE
    Rewrites = FALSE
    Removes = TRUE
SYMMETRY Symmetry
CONSTRAINT VacuumsAmongFew
INVARIANTS
    DurableBeforeVisible
    SleepersWillBeNotified

    
CHECK_DEADLOCK FALSE
