SPECIFICATION Spec
CONSTANTS
    c1 = c1
    c2 = c2
    n1 = n1
    n2 = n2
    n3 = n3
    n4 = n4
    Containers = {c1, c2}
    Networks = {n1, n2, n3, n4}
    Nets <- SharedNets
    Internal = {n3}
    Dns = {n1, n2, n4}
    Plugins = {n4}
    MaxFaults = 3
INVARIANTS
    TypeOK
    RollbackOnHostUndoes
    SuccessLeavesNothing
    TeardownContinues
