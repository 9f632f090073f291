\* The same with a provider that swallows a failed request.
SPECIFICATION SteadyCloudSpec
CONSTANTS
    Accounts = {a1}
    Ids = {v1, v2}
    Procs = {serve, sync}
    FileConfigs <- FullFile
    EnvMode = FALSE
    PartialListings = TRUE
    MaxRuns = 3
    NoProc = NoProc
SYMMETRY Symmetry
INVARIANTS
    ExistingVmsStayActive
CHECK_DEADLOCK FALSE
