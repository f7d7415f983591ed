\* Tables that grow twice and then have no larger size.
CONSTANTS
    Keys <- MCKeys
    Values = {v1, v2}
    PRIMES <- MCSizes
    InitialSize = 1
    None = None
    MaxCalls = 6
SPECIFICATION Spec
INVARIANTS
    TypeOK
    ItemsReachable
    KeysUnique
    RoomToProbe
    ResizeLosesNothing
PROPERTIES
    ImplementsMap
    CallsReturn
\* The bound on calls ends every behaviour.
CHECK_DEADLOCK FALSE
