\* What README.md says of mine_blocks, for a request of zero blocks.
SPECIFICATION Spec
CONSTANTS
    x = x
    c1 = c1
    k1 = k1
    k2 = k2
    m1 = m1
    m2 = m2
    Null = Null
    Tx = {x}
    Deniable <- CommitOfX
    Caller = {c1}
    Tick = {k1}
    Timer = {m1, m2}
    Blocks = {0}
    MaxAsked = 0
    MaxBelow = 0
INVARIANTS
    NoMoreThanAsked
CHECK_DEADLOCK FALSE
