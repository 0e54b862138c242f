SPECIFICATION Spec
CONSTANTS
    s1 = s1
    s2 = s2
    s3 = s3
    t1 = t1
    c1 = c1
    c2 = c2
    c3 = c3
    n1 = n1
    n2 = n2
    a1 = a1
    a2 = a2
    b1 = b1
    h1 = h1
    None = None
    Procs = {s1, s2, s3, t1}
    Containers = {c1, c2, c3}
    Networks = {n1, n2}
    Subnets <- TwoNetworks
    Families <- DualStack
    Mappings <- PortMappings
    RedirectDns = TRUE
    Cmd <- LifeCmds
    PortMod = 8
    MaxFaults = 1
CHECK_DEADLOCK FALSE
INVARIANTS
    TypeOK
    RunningWhenUsed
    SourcesServed
    PortsForwarded
    NothingLeft
PROPERTIES
    SourcesKept
