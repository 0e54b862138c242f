SPECIFICATION Spec
CONSTANTS
    s1 = s1
    s2 = s2
    s3 = s3
    t1 = t1
    t2 = t2
    t3 = t3
    c1 = c1
    c2 = c2
    c3 = c3
    n1 = n1
    n2 = n2
    Procs = {s1, s2, s3, t1, t2, t3}
    Containers = {c1, c2, c3}
    Networks = {n1, n2}
    Internal = {n2}
    Mapped = {c1}
    Cmd <- LifeCmds
    MaxFaults = 1
CHECK_DEADLOCK FALSE
INVARIANTS
    TypeOK
    Connected
    NothingLeft
    RemovedOnlyWhenEmpty
