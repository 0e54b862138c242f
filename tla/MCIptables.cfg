SPECIFICATION Spec
CONSTANTS
    s1 = s1
    s2 = s2
    s3 = s3
    s4 = s4
    s5 = s5
    s6 = s6
    s7 = s7
    t1 = t1
    t2 = t2
    t3 = t3
    t5 = t5
    t7 = t7
    c1 = c1
    c2 = c2
    c3 = c3
    c4 = c4
    c5 = c5
    c6 = c6
    c7 = c7
    n1 = n1
    n2 = n2
    n3 = n3
    a1 = a1
    a2 = a2
    b1 = b1
    d1 = d1
    None = None
    Networks = {n1, n2, n3}
    Subnets <- SubnetsOf
    Isolated = {n1, n2}
    Mapped = {c1, c3, c4, c6, c7}
    RedirectDns = TRUE
    Procs = {s1, s2, s3, t1, t2, t3, s4, s5, t5, s6, s7, t7}
    Containers = {c1, c2, c3, c4, c5, c6, c7}
    Cmd <- LifeCmds
    Histories = {{s1, s2, s3, t1, t2, t3}, {s4, s5, t5}, {s6, s7, t7}}
    Overlaps = {{s4, s5}, {s4, t5}, {s6, t7}}
CHECK_DEADLOCK FALSE
INVARIANTS
    RulesOnce
    PortsSurvive
    MasqFirst
    NetworkServed
    NothingLeft
    CommandsSucceed
    IsolatedWhileJump
