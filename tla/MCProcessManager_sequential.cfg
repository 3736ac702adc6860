\* One request at a time, two projects with clashing ports, no fault.
SPECIFICATION FairSpec
CONSTANTS
    p1 = p1
    p2 = p2
    t1 = t1
    t2 = t2
    g1 = g1
    g2 = g2
    Null = Null
    Project = {p1, p2}
    DevChain = {p1}
    Thread = {t1}
    Group = {g1, g2}
    Port <- MCPort
    Cfg <- ClashingCfg
    MaxFaults = 0
INVARIANTS
    UniqueGroup
    RowAgrees
    NoOrphan
    ResetWhileStopped
PROPERTIES
    RestartComesBack
    ImplementsChains
CHECK_DEADLOCK FALSE
