SPECIFICATION Spec
CONSTANTS
    s1 = s1
    s2 = s2
    t1 = t1
    t2 = t2
    u1 = u1
    c1 = c1
    c2 = c2
    n1 = n1
    n2 = n2
    dA = dA
    dB = dB
    NoDns = NoDns
    None = None
    Gateways = Gateways
    Addrs = Addrs
    Procs = {s1, s2, t1, t2, u1}
    Networks = {n1, n2}
    Containers = {c1, c2}
    DnsLists = {NoDns, dA, dB}
    Cmd <- MixedCmds
    Mentions <- OwnLine
    Overlapping = {"setup"}
    MaxFaults = 0
CHECK_DEADLOCK FALSE
INVARIANTS
    HeaderFirst
    ServedWhenQuiet
    NoEmptyFile
PROPERTIES
    ImplementsRegistry
