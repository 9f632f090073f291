\* A manual trigger and the interval job on one account.
SPECIFICATION Spec
CONSTANTS
    Requests = {r1}
    Tick = Tick
    MaxCycles = 3
    NoThread = NoThread
    Accounts = {a1}
    Ids = {v1, v2}
    FileConfigs <- FullFile
    EnvMode = TRUE
    PartialListings = TRUE
    MaxRuns = 3
INVARIANTS
    ServeKeepsExactInventory
    NoRunLeftOpen
PROPERTIES
    ServeKeepsListingOrder
CHECK_DEADLOCK FALSE
SYMMETRY Symmetry
