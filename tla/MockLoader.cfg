SPECIFICATION LoaderSpec
CONSTANTS
    ParamName <- Names
    EndpointKeys <- Keys
    Unreadable = Unreadable
    Definitions <- PathDefs
    Requests <- PathRequests
    Loaders = {l1}
    MaxEndpoints = 3
    MaxLoads = 1
ACTION_CONSTRAINT AloneOrSharing
INVARIANTS LoaderTypeOK PathSound AloneComplete LiteralReached ParamsBound
CHECK_DEADLOCK FALSE
