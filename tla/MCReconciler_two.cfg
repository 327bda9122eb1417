SPECIFICATION Spec
CONSTANTS
    i1 = i1
    i2 = i2
    p1 = p1
    p2 = p2
    Instances = {i1, i2}
    Ports = {p1, p2}
    MaxAttempts = 1
    MaxLate = 0
    Deletable = {}
SYMMETRY Symmetry
INVARIANTS
    TypeOK
    RunningPortsExclusive
PROPERTIES
    ImplementsLifecycle
