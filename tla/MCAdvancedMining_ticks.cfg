\* Mining by ticks that may overlap, with one request at a time.
SPECIFICATION MCSpec
CONSTANTS
    x = x
    c1 = c1
    k1 = k1
    k2 = k2
    m1 = m1
    m2 = m2
    Null = Null
    Tx = {x}
    Deniable <- CommitOfX
    Caller = {c1}
    Tick = {k1, k2}
    Timer = {m1, m2}
    Blocks = {1, 2}
    MaxAsked = 2
    MaxBelow = 0
INVARIANTS
    TypeOK
    BlocksAccounted
    NoLeakedTimer
    ZeroIsNoticed
PROPERTIES
    SingleHonoursDenylist
    MiningEnds
CHECK_DEADLOCK FALSE
