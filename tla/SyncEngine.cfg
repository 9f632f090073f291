\* Two accounts of Yandex Cloud, one of vCloud, two VMs that move and vanish.
SPECIFICATION Spec
CONSTANTS
    y = y
    z = z
    v = v
    f = f
    g = g
    h = h
    k = k
    Providers <- Three
    TypeOf <- MCTypeOf
    p = p
    q = q
    Names = {p, q}
    Folders <- MCFolders
    CloudOf <- MCCloudOf
    OwnerOf <- MCOwnerOf
    Worlds <- SomeWorlds
    NoFolder = NoFolder
    MaxFailures = 1
    MaxChanges = 1
INVARIANTS
    VmsAreMirrored
    OrphansAreGone
    StaleClustersGo
    ErrorsAreCleared
PROPERTIES
    DeletesOnlyOwnOrphans
    FailuresAreShown
CHECK_DEADLOCK FALSE
