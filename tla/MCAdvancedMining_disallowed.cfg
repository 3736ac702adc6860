\* What the pool's page says of a transaction on the denylist.
SPECIFICATION Spec
CONSTANTS
    x = x
    c1 = c1
    k1 = k1
    k2 = k2
    m1 = m1
    m2 = m2
    Null = Null
    Tx = {x}
    Deniable <- CommitOfX
    Caller = {c1}
    Tick = {k1}
    Timer = {m1, m2}
    Blocks = {1, 2}
    MaxAsked = 2
    MaxBelow = 0
PROPERTIES
    DisallowedStaysOut
CHECK_DEADLOCK FALSE
