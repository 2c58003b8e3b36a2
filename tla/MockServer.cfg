SPECIFICATION Spec
CONSTANTS
    ParamName <- Names
    EndpointKeys <- Keys
    Unreadable = Unreadable
    Definitions <- Defs
    Requests <- AllRequests
    Loaders = {l1}
    MaxEndpoints = 1
    MaxLoads = 2
    Clients = {c1, c2}
    MismatchesKey = "mismatches"
    StoreKeys = {"e1", "e2", "mismatches"}
    Capacity = 1
    ApiSegments = {"__"}
    NoMatch = none
INVARIANTS
    TypeOK
    ServedAlone
    LostOnlyToMismatch
PROPERTY RecordedAlone
CHECK_DEADLOCK FALSE
SYMMETRY Symmetry
