\* Two processes whose cycles overlap, scheduled fairly, on one account.  A listing may
\* be any part of the cloud, so a steady cloud loses no listing.
SPECIFICATION SteadyFairSpec
CONSTANTS
    Accounts = {a1}
    Ids = {v1, v2}
    Procs = {serve, sync}
    FileConfigs <- FullFile
    EnvMode = FALSE
    PartialListings = TRUE
    MaxRuns = 3
    NoProc = NoProc
INVARIANTS
    ActiveReflectsListing
    VmsOfEveryListingStayActive
PROPERTIES
    RunRowsAreOwned
    VmsChangeOnlyBySuccess
    CycleEnds
CHECK_DEADLOCK FALSE
