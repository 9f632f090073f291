\* Three names and two addresses, in two clouds and NetBox.
SPECIFICATION Spec
CONSTANTS
    a = a
    b = b
    Names <- Three
    Addrs = {p, q}
    Accounts = {a, b}
    NoAccount = NoAccount
    NoAddr = NoAddr
    Worlds <- MCWorlds
    Initial <- MCInitial
    Settings <- MCSettings
    MaxChanges = 1
INVARIANTS
    SystemsAreBacked
    GapsAreReal
    UnambiguousVmsAreExact
    ReasonsFitRows
    HostsAreOfLatestRun
CHECK_DEADLOCK FALSE
SYMMETRY Symmetry
