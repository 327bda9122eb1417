SPECIFICATION FairSpec
CONSTANTS
    c1 = c1
    c2 = c2
    p1 = p1
    p2 = p2
    Checkpoints = {c1, c2}
    Ports = {p1, p2}
    WorkloadPorts = {p2}
    Connections = {"udp", "in"}
INVARIANTS
    TypeOK
    StoredPortsExclusive
    PodOutlivesCheckpoint
    
    ServersSaved
PROPERTIES
    CheckpointEndsCleanly
    ImplementsAPI
