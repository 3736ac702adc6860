\* Two requests that overlap: what README.md says of stop_chain.
SPECIFICATION Spec
CONSTANTS
    p1 = p1
    p2 = p2
    t1 = t1
    t2 = t2
    g1 = g1
    g2 = g2
    Null = Null
    Project = {p1}
    DevChain = {p1}
    Thread = {t1, t2}
    Group = {g1, g2}
    Port <- MCPort
    Cfg <- OneCfg
    MaxFaults = 1
SYMMETRY Symmetry
INVARIANTS
    StoppedMeansDown
CHECK_DEADLOCK FALSE
