SPECIFICATION FairSpec
CONSTANTS
    c1 = c1
    c2 = c2
    None = None
    Containers = {c1, c2}
    Leases = {l1, l2}
    Gatewayless = {l2}
    l1 = l1
    l2 = l2
    QueueCap = 1
    MaxTries = 2
    MaxFaults = 1
INVARIANTS
    LeaseWhileUp
    NoOrphanLease
PROPERTIES
    EventuallyExits
    RequestsAnswered
