\* Two VMs with two interfaces each; private and public addresses that move, swap
\* and vanish; each sync is of either kind.
SPECIFICATION SyncSpec
CONSTANTS
    Vms = {v, w}
    Idx <- Two
    Private = {p, q}
    Public = {u}
    Clouds <- MixedClouds
    None = None
    Pending = Pending
    Keep = Keep
    Absent = Absent
    Unplaced = Unplaced
    MaxFailures = 1
    MaxChanges = 1
INVARIANTS
    SeqTypeOK
    Converges
PROPERTIES
    StablePrimary
    UnlistedAddressesStay
CHECK_DEADLOCK FALSE
SYMMETRY Symmetry
