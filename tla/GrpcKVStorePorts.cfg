SPECIFICATION Spec
CONSTANTS
    h1 = h1
    h2 = h2
    h3 = h3
    c1 = c1
    c2 = c2
    NoHost = NoHost
    Hosts <- Cluster
    ClusterHostnames <- PlainNames
    MatchstorePort = 50051
    KvstorePort = 50151
    Clients <- Callers
    HostOf <- Placement
    Slots = {s1}
    MaxPuts = 3
    MaxCrashes = 0
INVARIANT FaultFreePutSucceeds
CHECK_DEADLOCK FALSE
