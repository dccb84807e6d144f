SPECIFICATION FairSpec
CONSTANTS
    Committers = {c1, c2, c3}
    NoOne = NoOne
    MaxVersion = 3
INVARIANTS
    FailedIsGone
    PendingHasLeader
PROPERTIES
    CommitsReturn
CHECK_DEADLOCK FALSE
