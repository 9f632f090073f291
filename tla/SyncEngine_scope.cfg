\* Two accounts of Yandex Cloud, one of which may have no folders.
SPECIFICATION Spec
CONSTANTS
    y = y
    z = z
    v = v
    f = f
    g = g
    h = h
    k = k
    Providers <- Two
    TypeOf <- MCTypeOf
    p = p
    q = q
    Names = {p, q}
    Folders <- MCFolders
    CloudOf <- MCCloudOf
    OwnerOf <- MCOwnerOf
    Worlds <- EmptyWorlds
    NoFolder = NoFolder
    MaxFailures = 0
    MaxChanges = 0
INVARIANT PrefixesAreMirrored
CHECK_DEADLOCK FALSE
