SPECIFICATION Spec
CONSTANTS
    n1 = n1
    n2 = n2
    n3 = n3
    n4 = n4
    n5 = n5
    Networks = {n1, n2, n3, n4, n5}
    Conf <- Confs
    Requests = {{n1, n2}, {n1, n3}, {n3, n4}, {n2, n5}}
    HostLinks <- Host
    HostRoutes <- RoutesOfHost
    Taken = {n3}
    TmpNames = {"mv-a", "mv-b"}
    MaxCmds = 2
    MaxFaults = 1
CHECK_DEADLOCK FALSE
INVARIANTS
    WorksWhenUp
    NoTmpLeft
    LeaseHasLink
    RolledBack
    FailsForAReason
PROPERTIES
    OthersUntouched
    CommandsEnd
