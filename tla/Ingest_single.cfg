\* One ingesting process, two accounts, every configuration file; clouds that change
\* while it runs.
SPECIFICATION Spec
CONSTANTS
    Accounts = {a1, a2}
    Ids = {v1, v2}
    Procs = {serve}
    FileConfigs <- AnyFile
    EnvMode = TRUE
    PartialListings = TRUE
    MaxRuns = 3
    NoProc = NoProc
INVARIANTS
    OnlyConfiguredAccounts
    FailuresAreIsolated
PROPERTIES
    KeepsPromise
CHECK_DEADLOCK FALSE
SYMMETRY Symmetry
