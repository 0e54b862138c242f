SPECIFICATION Spec
CONSTANTS
    c1 = c1
    c2 = c2
    None = None
    Containers = {c1, c2}
    Leases = {l1, l2}
    Gatewayless = {l2}
    l1 = l1
    l2 = l2
    QueueCap = 1
    MaxTries = 1
    MaxFaults = 0
INVARIANTS
    FileHoldsMap
