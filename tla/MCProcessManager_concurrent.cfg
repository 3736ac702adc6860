\* Two requests that overlap, one project, one fault.
SPECIFICATION Spec
CONSTANTS
    p1 = p1
    p2 = p2
    t1 = t1
    t2 = t2
    g1 = g1
    g2 = g2
    Null = Null
    Project = {p1}
    DevChain = {p1}
    Thread = {t1, t2}
    Group = {g1, g2}
    Port <- MCPort
    Cfg <- OneCfg
    MaxFaults = 1
SYMMETRY Symmetry
INVARIANTS
    TypeOK
    RegisteredIsStarted
    NoLostChild
PROPERTIES
    LeavesListDown
CHECK_DEADLOCK FALSE
