SPECIFICATION CountedSpec
CONSTANTS
    i1 = i1
    i2 = i2
    p1 = p1
    p2 = p2
    Instances = {i1}
    Ports = {p1, p2}
    MaxAttempts = 2
    MaxLate = 0
    MaxRestarts = 1
    Deletable = {}
INVARIANTS
    PortIsPodPortUntilRestart
PROPERTIES
    CreationSettles
    DeadIsRemoved
    FailedIsRemovedUnlessRestarted
