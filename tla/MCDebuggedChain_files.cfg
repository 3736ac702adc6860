\* One chain with two contracts and two lock args; two transactions, two scripts.
SPECIFICATION DebuggedSpec
CONSTANTS
    l1 = l1
    l2 = l2
    c1 = c1
    c2 = c2
    x1 = x1
    x2 = x2
    s1 = s1
    s2 = s2
    Null = Null
    MaxFaults = 2
    Lock = {l1, l2}
    Chosen = {c1, c2}
    Tx = {x1, x2}
    Script = {s1, s2}
SYMMETRY Symmetry
INVARIANTS
    DebuggedTypeOK
    GenesisHasContracts
    FilesAgree
    NoneIsForgotten
    FramesShowAsked
CHECK_DEADLOCK FALSE
