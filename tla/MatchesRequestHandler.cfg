SPECIFICATION Spec
CONSTANTS
    h1 = h1
    h2 = h2
    c1 = c1
    NoHost = NoHost
    Hosts <- Cluster
    ClusterHostnames <- PlainNames
    MatchstorePort = 50051
    KvstorePort = 50151
    EndpointIDs = {e1}
    MismatchesKey = mm
    Capacity = 2
    Clients <- Callers
    HostOf <- Placement
    MaxRecords = 3
    MaxCalls = 2
    MaxOpen = 1
    MaxCrashes = 1
INVARIANTS TypeOK NothingMissed GatheredInOrder CountBetween DeletedEverywhere FaultFreeSucceeds
CHECK_DEADLOCK FALSE
