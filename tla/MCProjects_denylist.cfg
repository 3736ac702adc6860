\* Two requests that overlap, up to two projects, with edits and the denylist.
SPECIFICATION Spec
CONSTANTS
    t1 = t1
    t2 = t2
    tx = tx
    Null = Null
    MaxId = 2
    Thread = {t1, t2}
    EditPorts <- Typed
    Deniable = {tx}
SYMMETRY Symmetry
INVARIANTS
    TypeOK
    DeniedOwned
PROPERTIES
    ActiveStays
CHECK_DEADLOCK FALSE
