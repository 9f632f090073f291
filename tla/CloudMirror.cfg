\* Three VMs in two folders, with zones the defaults lack and defaults that are gone.
SPECIFICATION FairSpec
CONSTANTS
    Zones = {"a", "new"}
    DefaultZones = {"a", "old"}
    Clouds = {1}
    Folders = {1, 2}
    Vms = {1, 2, 3}
    Disks = {1, 2, 3, 4}
    CloudOf <- MCCloudOf
    FolderOf <- MCFolderOf
    BootOf <- MCBootOf
    OwnerOf <- MCOwnerOf
    ZoneOf <- MCZoneOf
    Initial <- MCInitial
    NoSite = NoSite
    MaxRetries = 1
    MaxFailures = 2
    MaxChanges = 1
INVARIANTS
    SteadySyncRepairs
PROPERTIES
    LossesAreExplained
    FetchEnds
CHECK_DEADLOCK FALSE
