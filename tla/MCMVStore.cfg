SPECIFICATION Spec
CONSTANTS
    Keys = {k1, k2}
    MaxTx = 1
    MaxCommits = 2
    MaxJobs = 3
    MaxRuns = 2
    MaxTorn = 1
    EarlyRewrites = FALSE
    WriteErrors = TRUE
    RenameErrors = TRUE
SYMMETRY Symmetry
CONSTRAINT Explored
INVARIANTS
    AlwaysOpenable
    AcknowledgedSurvives
    NothingEscapesTheJournal
CHECK_DEADLOCK FALSE
