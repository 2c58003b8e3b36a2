SPECIFICATION Spec
CONSTANTS
    Requests = {r1, r2}
    MaxSignals = 2
INVARIANTS TypeOK DrainedAtExit ReadyEndsCleanly StoresOpenWhileServing
PROPERTIES StopLeadsToEnd BecomesReady
CHECK_DEADLOCK FALSE
