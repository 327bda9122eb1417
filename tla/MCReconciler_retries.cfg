SPECIFICATION Spec
CONSTANTS
    i1 = i1
    i2 = i2
    p1 = p1
    p2 = p2
    Instances = {i1}
    Ports = {p1, p2}
    MaxAttempts = 2
    MaxLate = 1
    Deletable = {i1}
SYMMETRY Symmetry
INVARIANTS
    CreationHasRow
    PodHasAllocatedPort
