\* Three VMs of two accounts, three hosts on two pages.
SPECIFICATION Spec
CONSTANTS
    a = a
    b = b
    c = c
    p = p
    q = q
    A = A
    B = B
    Absent = Absent
    Vms = {1, 2, 3}
    HostIds = {1, 2, 3}
    Names = {a, b, c}
    Ips = {p, q}
    NameOf <- MCNameOf
    AccountOf <- MCAccountOf
    Tables <- MCTables
    Zabbixes <- MCZabbixes
    PageSize = 2
    MaxPages = 2
    MaxFailures = 2
    MaxChanges = 1
INVARIANTS
    MonitoredVmsAreShown
    NothingElseIsActive
PROPERTIES
    UncheckedAccountsKeepTheirRows
    RowsChangeOnlyBySuccess
    CheckEnds
CHECK_DEADLOCK FALSE
