SPECIFICATION LoaderSpec
CONSTANTS
    ParamName <- Names
    EndpointKeys <- Keys
    Unreadable = Unreadable
    Definitions <- AttributeDefs
    Requests <- AttributeRequests
    Loaders = {l1, l2}
    MaxEndpoints = 3
    MaxLoads = 2
ACTION_CONSTRAINT LongLoadAlone
INVARIANTS InstalledWhole  IDsUnique
SYMMETRY Symmetry
CHECK_DEADLOCK FALSE
