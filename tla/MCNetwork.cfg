SPECIFICATION NetSpec
CONSTANTS
    w1 = w1
    w2 = w2
    HostPeerMAC = HostPeerMAC
    NoEntry = NoEntry
    Workloads = {w1, w2}
    HostPorts <- MCPorts
    IPPairs <- MCPairs
    StalePods <- MCStale
    FirstIndex = 254
    VethEntries = 6
    DnatEntries = 3
    NetDataEntries = 5
    MaxRuns = 1
    NodeIP <- MCNodeIP
    NodeIface = 2
    Client <- MCClient
    ClientPort = 50000
    Destinations <- MCDestinations
    DestPorts = {53, 80, 443, 25565}
    PodPorts = {40000, 40001}
    Protocols = {6, 17}
    OriginalDstEntries = 2
    MaxFlows = 0
    Traffic <- MCTraffic
SYMMETRY Symmetry
CHECK_DEADLOCK FALSE
INVARIANTS
    TypeOK
    ServersReachableUnlessPortReused
    EgressReachesOwnProxy
    DelUndoesAdd
