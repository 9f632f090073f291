\* Two processes whose cycles overlap: a row read before the lock is taken.
SPECIFICATION Spec
CONSTANTS
    Accounts = {a1}
    Ids = {v1}
    Procs = {serve, sync}
    FileConfigs <- FullFile
    EnvMode = FALSE
    PartialListings = TRUE
    MaxRuns = 3
    NoProc = NoProc
INVARIANTS
    ListedVmsAreActive
CHECK_DEADLOCK FALSE
