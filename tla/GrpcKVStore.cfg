SPECIFICATION Spec
CONSTANTS
    h1 = h1
    h2 = h2
    h3 = h3
    c1 = c1
    c2 = c2
    NoHost = NoHost
    Hosts <- Cluster
    ClusterHostnames <- NamesWithKvPort
    MatchstorePort = 50051
    KvstorePort = 50151
    Clients <- Callers
    HostOf <- Placement
    Slots = {s1}
    MaxPuts = 3
    MaxCrashes = 1
INVARIANTS TypeOK ReplicaFresh FaultFreePutSucceeds
PROPERTY PutReturns
CHECK_DEADLOCK FALSE
