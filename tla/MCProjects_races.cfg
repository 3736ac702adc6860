\* Two requests that overlap, up to three projects, with the ports offered.
SPECIFICATION Spec
CONSTANTS
    t1 = t1
    t2 = t2
    tx = tx
    Null = Null
    MaxId = 3
    Thread = {t1, t2}
    EditPorts = {}
    Deniable = {}
SYMMETRY Symmetry
INVARIANTS
    UniqueActive
    PortsDistinct
PROPERTIES
    LoneActivation
CHECK_DEADLOCK FALSE
