SPECIFICATION Spec
CONSTANTS
    Families <- IndexedFamilies
    WorkMem = 2
    MaxMaterialized = 3
    MaxIterations = 5
    IntMax = 1
INVARIANT IndexNeverChangesTheAnswer
CHECK_DEADLOCK FALSE
